---- MODULE Spec2Model ----
(***************************************************************************)
(* Model of gym-buddy: the workout-entry parser, the per-conversation      *)
(* workout draft, the persistence layer (workouts, workout_entries,        *)
(* snoozes, weekly_nudges, move_body_areas), the weekly deadline nudges,   *)
(* the period summaries, the monthly report, and the endpoints of the      *)
(* deployment (the webhook and the two scheduled triggers).                *)
(*                                                                         *)
(* Text is a sequence of one-character strings.  A weight is kept in       *)
(* tenths (20.5 is 205), so the model is exact for inputs with at most one *)
(* fractional digit.  Time is counted in minutes since a Monday 00:00.     *)
(***************************************************************************)
EXTENDS Integers, Sequences, FiniteSets, TLC

(***************************************************************************)
(* Characters and strings                                                  *)
(***************************************************************************)
Digits == <<"0", "1", "2", "3", "4", "5", "6", "7", "8", "9">>

Lowers == <<"a", "b", "c", "d", "e", "f", "g", "h", "i", "j", "k", "l", "m",
            "n", "o", "p", "q", "r", "s", "t", "u", "v", "w", "x", "y", "z">>

Uppers == <<"A", "B", "C", "D", "E", "F", "G", "H", "I", "J", "K", "L", "M",
            "N", "O", "P", "Q", "R", "S", "T", "U", "V", "W", "X", "Y", "Z">>

Range(s) == {s[i] : i \in DOMAIN s}

SetMax(S) == CHOOSE x \in S : \A y \in S : y <= x

SetMin(S) == CHOOSE x \in S : \A y \in S : x <= y

DigitChars == Range(Digits)

SpaceChars == {" ", "\t"}

WordChars == Range(Digits) \cup Range(Lowers) \cup Range(Uppers) \cup {"_"}

KeyChars == Range(Digits) \cup Range(Lowers)

UpperChars == Range(Uppers)

\* \d
IsDigit(c) == c \in DigitChars

\* \s
IsSpace(c) == c \in SpaceChars

\* \w
IsWord(c) == c \in WordChars

\* the characters [a-z0-9] kept by the key normalisation
IsKeyChar(c) == c \in KeyChars

DigitVal(c) == (CHOOSE i \in DOMAIN Digits : Digits[i] = c) - 1

\* str.lower() on one character
LowerChar(c) ==
    IF c \in UpperChars
    THEN Lowers[CHOOSE i \in DOMAIN Uppers : Uppers[i] = c]
    ELSE c

\* str.lower()
Lower(s) == [i \in DOMAIN s |-> LowerChar(s[i])]

\* str.strip(chars): drop the characters of cs from both ends
StripChars(s, cs) ==
    LET keep == {i \in DOMAIN s : s[i] \notin cs}
    IN  IF keep = {} THEN <<>> ELSE SubSeq(s, SetMin(keep), SetMax(keep))

\* str.strip()
Strip(s) == StripChars(s, SpaceChars)

\* re.sub(r"\s+", " ", s)
CollapseSpaces(s) ==
    LET f[i \in 0..Len(s)] ==
            IF i = 0 THEN <<>>
            ELSE IF IsSpace(s[i])
                 THEN IF i > 1 /\ IsSpace(s[i - 1])
                      THEN f[i - 1]
                      ELSE Append(f[i - 1], " ")
                 ELSE Append(f[i - 1], s[i])
    IN  f[Len(s)]

\* " | ".join(parts)
RECURSIVE JoinBar(_)
JoinBar(parts) ==
    IF parts = <<>> THEN <<>>
    ELSE IF Len(parts) = 1 THEN parts[1]
    ELSE parts[1] \o <<" ", "|", " ">> \o JoinBar(Tail(parts))

\* the character at position i, "" past the end
CharAt(s, i) == IF i \in DOMAIN s THEN s[i] ELSE ""

\* length of the run of digits that starts at position p
DigitRun(s, p) ==
    SetMax({0} \cup {k \in 1..(Len(s) + 1 - p) : \A r \in p..(p + k - 1) : IsDigit(s[r])})

\* first position at or after p that is not whitespace
SkipSpaces(s, p) ==
    IF p > Len(s) THEN p
    ELSE SetMin({q \in p..(Len(s) + 1) : ~IsSpace(CharAt(s, q))})

\* the k digits that start at p, read as a natural number
NatOf(s, p, k) ==
    LET f[i \in 0..k] ==
            IF i = 0 THEN 0 ELSE f[i - 1] * 10 + DigitVal(s[p + i - 1])
    IN  f[k]

Pow10(j) ==
    LET f[i \in 0..j] == IF i = 0 THEN 1 ELSE 10 * f[i - 1]
    IN  f[j]

\* float("<k digits>[.<j digits>]") in tenths
Tenths(s, p, k, j) ==
    NatOf(s, p, k) * 10
    + (IF j = 0 THEN 0 ELSE (NatOf(s, p + k + 1, j) * 10) \div Pow10(j))

\* the number token \d+(?:\.\d+)? that starts at the digit at p
\* k integer digits, then j > 0 fraction digits when a "." and a digit follow
NumberAt(s, p) ==
    LET Token(k, j) ==
            [intDigits |-> k,
             tenths |-> Tenths(s, p, k, j),
             end |-> IF j > 0 THEN p + k + 1 + j ELSE p + k]
        Fraction(k) == IF CharAt(s, p + k) = "." THEN DigitRun(s, p + k + 1) ELSE 0
        Integral(k) == Token(k, Fraction(k))
    IN  Integral(DigitRun(s, p))

(***************************************************************************)
(* Normalisation of workout names (db.py)                                  *)
(***************************************************************************)
_normalize_workout_label(value) == CollapseSpaces(Lower(Strip(value)))

_normalize_workout_type_key(value) == SelectSeq(Lower(Strip(value)), IsKeyChar)

(***************************************************************************)
(* The workout-entry parser (bot.py)                                       *)
(***************************************************************************)
MaxReps == 100

MaxWeight == 2000

MaxWeightDigits == 4

MaxRepsDigits == 3

\* the bounds without the upper bound of the weight
InBounds_any_weight(reps, weight) ==
    /\ 1 <= reps
    /\ reps <= MaxReps
    /\ 0 < weight

\* 1 <= reps <= 100 and 0 < weight <= 2000
InBounds(reps, weight) ==
    /\ 1 <= reps
    /\ reps <= MaxReps
    /\ 0 < weight
    /\ weight <= MaxWeight * 10

\* one match of \b(\d{1,4}(?:\.\d+)?)\s*(?:lb)?\s*[xX@]\s*(\d{1,3})\b at p
\* num: the weight token; q2: after \s*; q3: after (?:lb)?\s*, where [xX@]
\* must be; q4: after [xX@]\s*, where the r digits of the reps start
ExplicitAt(s, p) ==
    LET Match(num, q3, q4, r) ==
            [ok |-> /\ p = 1 \/ ~IsWord(s[p - 1])
                    /\ num.intDigits >= 1
                    /\ num.intDigits <= MaxWeightDigits
                    /\ CharAt(s, q3) \in {"x", "X", "@"}
                    /\ r >= 1
                    /\ r <= MaxRepsDigits
                    /\ ~IsWord(CharAt(s, q4 + r)),
             weight |-> num.tenths,
             reps |-> NatOf(s, q4, r),
             end |-> q4 + r]
        Reps(num, q3, q4) == Match(num, q3, q4, DigitRun(s, q4))
        Separator(num, q3) == Reps(num, q3, SkipSpaces(s, q3 + 1))
        Unit(num, q2) ==
            Separator(num,
                      SkipSpaces(s, IF /\ LowerChar(CharAt(s, q2)) = "l"
                                       /\ LowerChar(CharAt(s, q2 + 1)) = "b"
                                    THEN q2 + 2 ELSE q2))
        Weight(num) == Unit(num, SkipSpaces(s, num.end))
    IN  Weight(NumberAt(s, p))

\* re.findall of the explicit pattern: <<weight, reps>> of every match
RECURSIVE FindExplicit(_, _)
FindExplicit(s, p) ==
    LET Scan(m) ==
            IF m.ok
            THEN <<[weight |-> m.weight, reps |-> m.reps]>> \o FindExplicit(s, m.end)
            ELSE FindExplicit(s, p + 1)
    IN  IF p > Len(s) THEN <<>>
        ELSE IF IsDigit(s[p]) THEN Scan(ExplicitAt(s, p))
        ELSE FindExplicit(s, p + 1)

\* re.findall(r"\d+(?:\.\d+)?"): every number token, in tenths
RECURSIVE FindNumbers(_, _)
FindNumbers(s, p) ==
    LET Scan(num) == <<num.tenths>> \o FindNumbers(s, num.end)
    IN  IF p > Len(s) THEN <<>>
        ELSE IF IsDigit(s[p]) THEN Scan(NumberAt(s, p))
        ELSE FindNumbers(s, p + 1)

\* the explicit matches read as reps before the separator, weight after it
ExplicitPairs_reps_first(matches) ==
    LET f[i \in 0..Len(matches)] ==
            IF i = 0 THEN <<>>
            ELSE IF InBounds(matches[i].weight \div 10, matches[i].reps * 10)
                 THEN Append(f[i - 1], [reps |-> matches[i].weight \div 10,
                                        weight |-> matches[i].reps * 10])
                 ELSE f[i - 1]
    IN  f[Len(matches)]

\* the in-bounds pairs of the explicit matches, in order
ExplicitPairs(matches) ==
    LET f[i \in 0..Len(matches)] ==
            IF i = 0 THEN <<>>
            ELSE IF InBounds(matches[i].reps, matches[i].weight)
                 THEN Append(f[i - 1], [reps |-> matches[i].reps, weight |-> matches[i].weight])
                 ELSE f[i - 1]
    IN  f[Len(matches)]

\* the fallback dropping the first number, not the last, of an odd count
FallbackPairs_drop_first(numbers) ==
    LET n == Len(numbers) \div 2
        skip == Len(numbers) % 2
        f[i \in 0..n] ==
            IF i = 0 THEN <<>>
            ELSE LET weight == numbers[skip + 2 * i - 1]
                     reps == numbers[skip + 2 * i] \div 10
                 IN  IF InBounds(reps, weight)
                     THEN Append(f[i - 1], [reps |-> reps, weight |-> weight])
                     ELSE f[i - 1]
    IN  IF Len(numbers) < 2 THEN <<>> ELSE f[n]

\* the fallback: numbers paired as weight, reps; an odd trailing number dropped
FallbackPairs(numbers) ==
    LET n == Len(numbers) \div 2
        f[i \in 0..n] ==
            IF i = 0 THEN <<>>
            ELSE LET weight == numbers[2 * i - 1]
                     reps == numbers[2 * i] \div 10
                 IN  IF InBounds(reps, weight)
                     THEN Append(f[i - 1], [reps |-> reps, weight |-> weight])
                     ELSE f[i - 1]
    IN  IF Len(numbers) < 2 THEN <<>> ELSE f[n]

NoEntry == [workout_type |-> <<>>, pairs |-> <<>>]

_parse_workout_entry(text) ==
    LET Entry(workout_type, explicit, numbers) ==
            IF workout_type = <<>> THEN NoEntry
            ELSE IF explicit # <<>>
                 THEN [workout_type |-> workout_type, pairs |-> ExplicitPairs(explicit)]
                 ELSE [workout_type |-> workout_type, pairs |-> FallbackPairs(numbers)]
        Sets(workout_type, sets_text) ==
            Entry(workout_type, FindExplicit(sets_text, 1), FindNumbers(sets_text, 1))
        Split(clean_text, first_number) ==
            Sets(CollapseSpaces(Lower(StripChars(SubSeq(clean_text, 1, first_number - 1),
                                                 {" ", ":", "-", ","}))),
                 SubSeq(clean_text, first_number, Len(clean_text)))
        Clean(clean_text, digitsAt) ==
            IF clean_text = <<>> THEN NoEntry
            ELSE IF digitsAt = {} THEN NoEntry
            ELSE Split(clean_text, SetMin(digitsAt))
        Stripped(clean_text) ==
            Clean(clean_text, {i \in DOMAIN clean_text : IsDigit(clean_text[i])})
    IN  Stripped(Strip(text))

(***************************************************************************)
(* The message texts the handlers are run on                               *)
(***************************************************************************)
TextVUp == <<"V", " ", "U", "p", " ", "2", "0", "x", "8", ",", "3", "0", "x", "8">>

TextZz == <<"z", "z", " ", "2", "0", " ", "8">>

TextJunk == <<"!", "!", " ", "5", "x", "5">>

TextHi == <<"h", "i">>

TextNoLabel == <<"2", "0", "x", "8">>

TextOutOfBounds == <<"r", "d", "l", " ", "2", "0", "x", "0">>

\* the text messages sent to the bot
Texts == {TextVUp, TextJunk, TextHi, TextNoLabel, TextOutOfBounds}

\* the arguments of /log: a set, a text without a set, no argument
LogTexts == {TextZz, TextHi, <<>>}

WeekTexts == {TextZz}

\* _parse_workout_entry of the message texts, evaluated once
ParseCache ==
    [text \in Texts \cup LogTexts \cup {Strip(t) : t \in Texts \cup LogTexts} |->
        _parse_workout_entry(text)]

ParseEntry(text) ==
    IF text \in DOMAIN ParseCache THEN ParseCache[text] ELSE _parse_workout_entry(text)

(***************************************************************************)
(* The persistence layer (db.py)                                           *)
(***************************************************************************)
\* the rows of MOVE_BODY_AREA_SEED the model keeps: <<move name, body area>>
MOVE_BODY_AREA_SEED ==
    << <<<<"b", "e", "n", "c", "h", " ", "p", "r", "e", "s", "s">>,
         <<"c", "h", "e", "s", "t">>>>,
       <<<<"r", "d", "l">>, <<"b", "a", "c", "k">>>>,
       <<<<"v", " ", "u", "p">>, <<"c", "o", "r", "e">>>>,
       <<<<"r", "u", "n">>, <<"c", "a", "r", "d", "i", "o">>>> >>

Unmapped == <<"u", "n", "m", "a", "p", "p", "e", "d">>

\* mutant of _connect: every statement is committed as it is executed
_connect_autocommit(before, after, raised) == after

\* psycopg's "with connect() as conn": commit on a normal exit, roll back
\* when the block raises
_connect(before, after, raised) == IF raised THEN before ELSE after

\* INSERT ... ON CONFLICT(move_key) DO UPDATE, one seed row after the other
_seed_move_body_areas(table) ==
    LET f[i \in 0..Len(MOVE_BODY_AREA_SEED)] ==
            IF i = 0 THEN table
            ELSE LET move_key == _normalize_workout_type_key(MOVE_BODY_AREA_SEED[i][1])
                     row == [display_label |-> _normalize_workout_label(MOVE_BODY_AREA_SEED[i][1]),
                             body_area |-> _normalize_workout_label(MOVE_BODY_AREA_SEED[i][2])]
                 IN  IF move_key = <<>> THEN f[i - 1]
                     ELSE [k \in DOMAIN f[i - 1] \cup {move_key} |->
                              IF k = move_key THEN row ELSE f[i - 1][k]]
    IN  f[Len(MOVE_BODY_AREA_SEED)]

_display_label_for_key(table, workout_key) ==
    IF workout_key \in DOMAIN table
    THEN table[workout_key].display_label
    ELSE workout_key

_lookup_body_area(table, workout_type) ==
    LET key == _normalize_workout_type_key(workout_type)
    IN  IF key = <<>> THEN Unmapped
        ELSE IF key \in DOMAIN table THEN table[key].body_area
        ELSE Unmapped

\* the mutant of _canonicalize_workout_entry_types looks the label up under
\* the stored type, not under the canonical key
_canonicalize_workout_entry_types_by_stored_type(table, entries) ==
    [i \in DOMAIN entries |->
        LET current_type == entries[i].workout_type
            current_label == entries[i].workout_display_name
            source_label == IF current_label # <<>> THEN current_label ELSE current_type
            canonical_key ==
                _normalize_workout_type_key(IF current_type # <<>> THEN current_type
                                            ELSE source_label)
            canonical_label == _display_label_for_key(table, current_type)
        IN  IF canonical_key = <<>> THEN entries[i]
            ELSE [entries[i] EXCEPT !.workout_type = canonical_key,
                                    !.workout_display_name = canonical_label]]

\* the startup pass that rewrites entries whose type or label is not canonical
_canonicalize_workout_entry_types(table, entries) ==
    [i \in DOMAIN entries |->
        LET current_type == entries[i].workout_type
            current_label == entries[i].workout_display_name
            source_label == IF current_label # <<>> THEN current_label ELSE current_type
            canonical_key ==
                _normalize_workout_type_key(IF current_type # <<>> THEN current_type
                                            ELSE source_label)
            canonical_label == _display_label_for_key(table, canonical_key)
        IN  IF canonical_key = <<>> THEN entries[i]
            ELSE [entries[i] EXCEPT !.workout_type = canonical_key,
                                    !.workout_display_name = canonical_label]]

\* GymDB.__init__: seed the taxonomy, then re-canonicalize the stored entries
_init_db(d) ==
    LET table == _seed_move_body_areas(d.move_body_areas)
    IN  [d EXCEPT !.move_body_areas = table,
                  !.workout_entries = _canonicalize_workout_entry_types(table, @)]

\* the entries whose normalized key is not empty, with key and display label
NormalizedEntries(table, entries) ==
    LET f[i \in 0..Len(entries)] ==
            IF i = 0 THEN <<>>
            ELSE LET workout_key == _normalize_workout_type_key(entries[i].workout_type)
                     label == _display_label_for_key(table, workout_key)
                     display_name ==
                         IF label # <<>> THEN label
                         ELSE _normalize_workout_label(entries[i].workout_type)
                 IN  IF workout_key = <<>> THEN f[i - 1]
                     ELSE Append(f[i - 1], [workout_key |-> workout_key,
                                            display_name |-> display_name,
                                            reps |-> entries[i].reps,
                                            weight |-> entries[i].weight])
    IN  f[Len(entries)]

\* the value of the BIGSERIAL id of the next row
NextId(rows) == IF rows = <<>> THEN 1 ELSE SetMax({rows[i].id : i \in DOMAIN rows}) + 1

\* mutant of WorkoutSets: counts the entries passed in, valid key or not
WorkoutSetsOfInput(normalized_entries, entries) == Len(entries)

\* the sets column of the inserted workouts row
WorkoutSets(normalized_entries, entries) == Len(normalized_entries)

\* fault = 0: every statement succeeds; fault = k > 0: the connection fails
\* when the k-th row is written (the workouts row is the first, then one
\* row per entry), after k - 1 rows were written in the transaction
log_workout_with_entries(d, entries, note, at, fault) ==
    LET Transaction(normalized_entries, workout_id, failed, written, in_transaction) ==
            IF entries = <<>>
            THEN [db |-> d, raised |-> "ValueError", workout_id |-> 0, written |-> 0]
            ELSE IF normalized_entries = <<>>
            THEN [db |-> _connect(d, d, TRUE), raised |-> "ValueError", workout_id |-> 0,
                  written |-> 0]
            ELSE IF failed
            THEN [db |-> _connect(d, in_transaction, TRUE), raised |-> "OperationalError",
                  workout_id |-> 0, written |-> written]
            ELSE [db |-> _connect(d, in_transaction, FALSE), raised |-> "",
                  workout_id |-> workout_id, written |-> written]
        Write(normalized_entries, workout_id, workout_row, entry_rows, failed, written) ==
            Transaction(normalized_entries, workout_id, failed, written,
                        IF written = 0 THEN d
                        ELSE [d EXCEPT !.workouts = Append(@, workout_row),
                                       !.workout_entries =
                                           @ \o SubSeq(entry_rows, 1, written - 1)])
        Rows(normalized_entries, workout_id, workout_row, entry_rows, failed) ==
            Write(normalized_entries, workout_id, workout_row, entry_rows, failed,
                  IF failed THEN fault - 1 ELSE 1 + Len(entry_rows))
        Insert(normalized_entries, workout_id) ==
            Rows(normalized_entries, workout_id,
                 [id |-> workout_id, logged_at |-> at,
                  sets |-> WorkoutSets(normalized_entries, entries),
                  note |-> Strip(note)],
                 [i \in 1..Len(normalized_entries) |->
                     [id |-> NextId(d.workout_entries) + i - 1,
                      workout_id |-> workout_id,
                      workout_type |-> normalized_entries[i].workout_key,
                      workout_display_name |-> normalized_entries[i].display_name,
                      reps |-> normalized_entries[i].reps,
                      weight |-> normalized_entries[i].weight,
                      logged_at |-> at,
                      source_text |-> Strip(note)]],
                 fault >= 1 /\ fault <= 1 + Len(normalized_entries))
    IN  Insert(NormalizedEntries(d.move_body_areas, entries), NextId(d.workouts))

\* SELECT COUNT(*) FROM workouts WHERE logged_at >= start AND logged_at < end
count_workouts_between(d, start, end) ==
    Cardinality({i \in DOMAIN d.workouts :
                    d.workouts[i].logged_at >= start /\ d.workouts[i].logged_at < end})

weekly_nudge_sent(d, week_start, milestone) ==
    \E row \in d.weekly_nudges : row.week_start = week_start /\ row.milestone = milestone

\* mutant of mark_weekly_nudge_sent: the row is keyed by the time of the send
mark_weekly_nudge_sent_at(d, week_start, milestone, at) ==
    [d EXCEPT !.weekly_nudges =
        @ \cup {[week_start |-> at, milestone |-> milestone, sent_at |-> at]}]

\* INSERT ... ON CONFLICT (week_start, milestone) DO NOTHING
mark_weekly_nudge_sent(d, week_start, milestone, at) ==
    IF weekly_nudge_sent(d, week_start, milestone) THEN d
    ELSE [d EXCEPT !.weekly_nudges =
              @ \cup {[week_start |-> week_start, milestone |-> milestone, sent_at |-> at]}]

(***************************************************************************)
(* The bot (bot.py): draft helpers                                         *)
(***************************************************************************)
\* user_data has no WORKOUT_DRAFT_KEY yet
NoDraft == [present |-> FALSE, batches |-> <<>>]

EmptyDraft == [present |-> TRUE, batches |-> <<>>]

\* mutant of _reset_workout_draft: leaves awaiting mode, keeps the batches
_reset_workout_draft_keeps_batches(ud) ==
    [awaiting |-> FALSE, draft |-> [present |-> TRUE, batches |-> ud.draft.batches]]

_reset_workout_draft(ud) == [awaiting |-> FALSE, draft |-> EmptyDraft]

_set_awaiting_workout_draft(ud) ==
    [_reset_workout_draft(ud) EXCEPT !.awaiting = TRUE]

_draft_set_count(draft) ==
    LET f[i \in 0..Len(draft.batches)] ==
            IF i = 0 THEN 0
            ELSE f[i - 1]
                 + Cardinality({j \in DOMAIN draft.batches[i].pairs :
                                   draft.batches[i].pairs[j].reps > 0})
    IN  f[Len(draft.batches)]

\* mutant of _append_workout_entry: only the workout type is checked
_append_workout_entry_unchecked_pairs(ud, text) ==
    LET Batch(parsed) ==
            IF parsed.workout_type = <<>>
            THEN [ud |-> ud, ok |-> FALSE]
            ELSE [ud |-> [ud EXCEPT !.draft.batches =
                             Append(@, [text |-> Strip(text),
                                        workout_type |-> parsed.workout_type,
                                        pairs |-> parsed.pairs])],
                  ok |-> TRUE]
    IN  Batch(ParseEntry(text))

\* mutant of _append_workout_entry: the batch replaces the earlier batches
_append_workout_entry_replacing(ud, text) ==
    LET Batch(parsed) ==
            IF parsed.workout_type = <<>> \/ parsed.pairs = <<>>
            THEN [ud |-> ud, ok |-> FALSE]
            ELSE [ud |-> [ud EXCEPT !.draft =
                             [present |-> TRUE,
                              batches |-> <<[text |-> Strip(text),
                                             workout_type |-> parsed.workout_type,
                                             pairs |-> parsed.pairs]>>]],
                  ok |-> TRUE]
    IN  Batch(ParseEntry(text))

_append_workout_entry(ud, text) ==
    LET started == IF ud.draft.present THEN ud ELSE _reset_workout_draft(ud)
        Batch(parsed) ==
            IF parsed.workout_type = <<>> \/ parsed.pairs = <<>>
            THEN [ud |-> ud, ok |-> FALSE]
            ELSE [ud |-> [started EXCEPT !.draft.batches =
                             Append(@, [text |-> Strip(text),
                                        workout_type |-> parsed.workout_type,
                                        pairs |-> parsed.pairs])],
                  ok |-> TRUE]
    IN  Batch(ParseEntry(text))

\* mutant of _undo_last_workout_entry: removes the oldest batch
_undo_first_workout_entry(ud) ==
    IF ~ud.draft.present THEN [ud |-> ud, ok |-> FALSE]
    ELSE IF ud.draft.batches = <<>> THEN [ud |-> ud, ok |-> FALSE]
    ELSE [ud |-> [ud EXCEPT !.draft.batches = Tail(@)], ok |-> TRUE]

_undo_last_workout_entry(ud) ==
    IF ~ud.draft.present THEN [ud |-> ud, ok |-> FALSE]
    ELSE IF ud.draft.batches = <<>> THEN [ud |-> ud, ok |-> FALSE]
    ELSE [ud |-> [ud EXCEPT !.draft.batches = SubSeq(@, 1, Len(@) - 1)], ok |-> TRUE]

\* the (workout_type, reps, weight) triples of one batch
BatchEntries(batch) ==
    LET workout_type == Strip(batch.workout_type)
        f[j \in 0..Len(batch.pairs)] ==
            IF j = 0 THEN <<>>
            ELSE IF workout_type # <<>> /\ batch.pairs[j].reps > 0 /\ batch.pairs[j].weight > 0
                 THEN Append(f[j - 1], [workout_type |-> workout_type,
                                        reps |-> batch.pairs[j].reps,
                                        weight |-> batch.pairs[j].weight])
                 ELSE f[j - 1]
    IN  f[Len(batch.pairs)]

\* the triples of all batches, in batch order then pair order
DraftEntries(draft) ==
    LET f[i \in 0..Len(draft.batches)] ==
            IF i = 0 THEN <<>> ELSE f[i - 1] \o BatchEntries(draft.batches[i])
    IN  f[Len(draft.batches)]

\* " | ".join(part for part in note_parts if part)
DraftNote(draft) ==
    JoinBar(SelectSeq([i \in DOMAIN draft.batches |-> Strip(draft.batches[i].text)],
                      LAMBDA part : part # <<>>))

\* mutant of _finalize_workout_draft: the draft is reset before the check
_finalize_workout_draft_reset_first(ud, d, at, fault) ==
    LET Logged(entries, logged) ==
            IF ~ud.draft.present
            THEN [ud |-> ud, db |-> d, ok |-> FALSE, raised |-> "", written |-> 0]
            ELSE IF entries = <<>>
            THEN [ud |-> _reset_workout_draft(ud), db |-> d, ok |-> FALSE, raised |-> "",
                  written |-> 0]
            ELSE IF logged.raised # ""
            THEN [ud |-> _reset_workout_draft(ud), db |-> logged.db, ok |-> FALSE,
                  raised |-> logged.raised, written |-> logged.written]
            ELSE [ud |-> _reset_workout_draft(ud), db |-> logged.db, ok |-> TRUE,
                  raised |-> "", written |-> logged.written]
        Entries(entries) ==
            Logged(entries,
                   log_workout_with_entries(d, entries, DraftNote(ud.draft), at, fault))
    IN  Entries(DraftEntries(ud.draft))

_finalize_workout_draft(ud, d, at, fault) ==
    LET Logged(entries, logged) ==
            IF ~ud.draft.present
            THEN [ud |-> ud, db |-> d, ok |-> FALSE, raised |-> "", written |-> 0]
            ELSE IF entries = <<>>
            THEN [ud |-> ud, db |-> d, ok |-> FALSE, raised |-> "", written |-> 0]
            ELSE IF logged.raised # ""
            THEN [ud |-> ud, db |-> logged.db, ok |-> FALSE, raised |-> logged.raised,
                  written |-> logged.written]
            ELSE [ud |-> _reset_workout_draft(ud), db |-> logged.db, ok |-> TRUE,
                  raised |-> "", written |-> logged.written]
        Entries(entries) ==
            Logged(entries,
                   log_workout_with_entries(d, entries, DraftNote(ud.draft), at, fault))
    IN  Entries(DraftEntries(ud.draft))

(***************************************************************************)
(* The bot (bot.py): weekly deadline nudges                                *)
(***************************************************************************)
WEEKLY_MILESTONES ==
    << [milestone |-> 1, required_workouts |-> 1, weekday |-> 1, hour |-> 20, minute |-> 0],
       [milestone |-> 2, required_workouts |-> 2, weekday |-> 3, hour |-> 20, minute |-> 0],
       [milestone |-> 3, required_workouts |-> 3, weekday |-> 6, hour |-> 16, minute |-> 0] >>

\* timedelta(days = n) and a time of day, in minutes
Days(n) == n * 24 * 60

TimeOfDay(hour, minute) == hour * 60 + minute

\* now.weekday(): 0 is Monday; minute 0 of the clock is a Monday 00:00
Weekday(t) == (t \div Days(1)) % 7

_week_start(t) == ((t \div Days(1)) - Weekday(t)) * Days(1)

\* week_start + timedelta(days = weekday), with hour and minute replaced
Deadline(week_start, m) == week_start + Days(m.weekday) + TimeOfDay(m.hour, m.minute)

\* mutant of CompletedBeforeDeadline: counts every workout of the week so far
CompletedSoFar(d, t, m) == count_workouts_between(d, _week_start(t), t + 1)

\* the workouts counted for the milestone m in a run at time t
CompletedBeforeDeadline(d, t, m) ==
    count_workouts_between(d, _week_start(t), Deadline(_week_start(t), m))

\* the run sends a nudge for m: not marked, deadline passed, too few workouts
NudgeDue(d, t, m) ==
    /\ ~weekly_nudge_sent(d, _week_start(t), m.milestone)
    /\ ~(t < Deadline(_week_start(t), m))
    /\ ~(CompletedBeforeDeadline(d, t, m) >= m.required_workouts)

\* mutant of send_weekly_deadline_nudges_now: the mark is written before
\* the message is sent
send_weekly_deadline_nudges_now_mark_first(d, t, failing) ==
    LET f[i \in 0..Len(WEEKLY_MILESTONES)] ==
            IF i = 0 THEN [db |-> d, sent |-> <<>>, raised |-> ""]
            ELSE LET m == WEEKLY_MILESTONES[i]
                     s == f[i - 1]
                 IN  IF s.raised # "" THEN s
                     ELSE IF ~NudgeDue(s.db, t, m) THEN s
                     ELSE IF failing = m.milestone
                     THEN [s EXCEPT !.db = mark_weekly_nudge_sent(s.db, _week_start(t),
                                                                  m.milestone, t),
                                    !.raised = "TelegramError"]
                     ELSE [db |-> mark_weekly_nudge_sent(s.db, _week_start(t), m.milestone, t),
                           sent |-> Append(s.sent, m.milestone),
                           raised |-> ""]
    IN  f[Len(WEEKLY_MILESTONES)]

\* failing = 0: every send_message succeeds; failing = k: the send_message for
\* milestone k raises, which ends the run before the mark is written
send_weekly_deadline_nudges_now(d, t, failing) ==
    LET f[i \in 0..Len(WEEKLY_MILESTONES)] ==
            IF i = 0 THEN [db |-> d, sent |-> <<>>, raised |-> ""]
            ELSE LET m == WEEKLY_MILESTONES[i]
                     s == f[i - 1]
                 IN  IF s.raised # "" THEN s
                     ELSE IF ~NudgeDue(s.db, t, m) THEN s
                     ELSE IF failing = m.milestone
                     THEN [s EXCEPT !.raised = "TelegramError"]
                     ELSE [db |-> mark_weekly_nudge_sent(s.db, _week_start(t), m.milestone, t),
                           sent |-> Append(s.sent, m.milestone),
                           raised |-> ""]
    IN  f[Len(WEEKLY_MILESTONES)]

(***************************************************************************)
(* State                                                                   *)
(***************************************************************************)
VARIABLES
    awaiting_workout_log,   \* user_data[AWAITING_WORKOUT_LOG_KEY]
    workout_draft,          \* user_data[WORKOUT_DRAFT_KEY]
    workouts,               \* table workouts, in insertion order
    workout_entries,        \* table workout_entries, in insertion order
    move_body_areas,        \* table move_body_areas, by move_key
    weekly_nudges,          \* table weekly_nudges
    now,                    \* the Pacific wall clock, in minutes
    nudge_sends,            \* the nudges delivered so far: <<week_start, milestone>>
    event,                  \* the handler that ran last and its outcome
    snoozes,                \* table snoozes, in insertion order
    monthly_reports,        \* the monthly-report markers: the period start dates
    report_sends,           \* the monthly reports delivered so far: the period start dates
    env,                    \* os.environ: the secrets of the trigger endpoints
    http,                   \* the last request to an endpoint and its response
    reply,                  \* the outcome of the last summary request
    server,                 \* the globals of server.py and the calls of ensure_initialized
    greeting,               \* the last morning greeting: the quote call and the quote sent
    parser_run              \* the last message given to the parser and its result

vars == <<awaiting_workout_log, workout_draft, workouts, workout_entries,
          move_body_areas, weekly_nudges, now, nudge_sends, event,
          snoozes, monthly_reports, report_sends, env, http, reply, server,
          greeting, parser_run>>

userVars == <<awaiting_workout_log, workout_draft>>

dbVars == <<workouts, workout_entries, move_body_areas, weekly_nudges, snoozes,
            monthly_reports>>

\* what the chat handlers and the in-process jobs neither read nor write
otherVars == <<report_sends, env, reply, greeting, parser_run>>

UD == [awaiting |-> awaiting_workout_log, draft |-> workout_draft]

DB == [workouts |-> workouts, workout_entries |-> workout_entries,
       move_body_areas |-> move_body_areas, weekly_nudges |-> weekly_nudges,
       snoozes |-> snoozes, monthly_reports |-> monthly_reports]

SetUD(ud) ==
    /\ awaiting_workout_log' = ud.awaiting
    /\ workout_draft' = ud.draft

SetDB(d) ==
    /\ workouts' = d.workouts
    /\ workout_entries' = d.workout_entries
    /\ move_body_areas' = d.move_body_areas
    /\ weekly_nudges' = d.weekly_nudges
    /\ snoozes' = d.snoozes
    /\ monthly_reports' = d.monthly_reports

\* sent: the milestones an evaluation run delivered; written: the rows a
\* log_workout_with_entries call wrote in its transaction before it ended
Event(op, text, ok, raised, sent, written) ==
    [op |-> op, text |-> text, ok |-> ok, raised |-> raised, sent |-> sent,
     written |-> written]

(***************************************************************************)
(* Bounds and inputs                                                       *)
(***************************************************************************)
MaxBatches == 2

MaxWorkouts == 2

MaxWeekWorkouts == 3

MaxFault == 2

allowed_user_id == "owner"

Users == {"owner", "stranger"}

\* the instants the clock visits: around each deadline of the first week,
\* and the start and the first deadline of the second week
Instants ==
    {0,
     Days(1) + TimeOfDay(19, 59), Days(1) + TimeOfDay(20, 0), Days(2),
     Days(3) + TimeOfDay(20, 0), Days(4),
     Days(6) + TimeOfDay(16, 0), Days(6) + TimeOfDay(17, 0),
     Days(7), Days(8) + TimeOfDay(20, 0)}

\* the values of TELEGRAM_WEBHOOK_SECRET and of CRON_SECRET when they are set
WebhookSecret == <<"w", "h">>

CronSecret == <<"c", "r">>

\* the environments of a deployment: each secret set or not set
Environments ==
    {[TELEGRAM_WEBHOOK_SECRET |-> w, CRON_SECRET |-> c] :
        w \in {<<>>, WebhookSecret}, c \in {<<>>, CronSecret}}

\* an update of the chat: who sent it, what it is and its text
Update(uid, kind, text) == [uid |-> uid, kind |-> kind, text |-> text]

NoUpdate == Update("", "none", <<>>)

\* a request body that json.loads refuses
InvalidJson == Update("", "invalid json", <<>>)

\* a request: the endpoint, the headers x-telegram-bot-api-secret-token,
\* authorization and x-vercel-cron, and the payload; status 0: no response yet
Request(endpoint, secret_token, authorization, vercel_cron, update) ==
    [endpoint |-> endpoint, secret_token |-> secret_token,
     authorization |-> authorization, vercel_cron |-> vercel_cron,
     update |-> update, status |-> 0, body |-> ""]

\* send_response(status) and wfile.write(body)
Response(request, status, body) ==
    [request EXCEPT !.status = status, !.body = body]

\* no request was made yet
NoRequest == Request("none", <<>>, <<>>, "", NoUpdate)

\* no summary was asked for yet
NoReply == [start |-> 0, end |-> 0, summary |-> [workouts |-> 0], raised |-> ""]

\* nothing was given to the parser yet
NotParsed ==
    [message |-> [label |-> <<>>, sets |-> <<>>, separator |-> <<>>, trailing |-> <<>>],
     text |-> <<>>, parsed |-> FALSE, result |-> NoEntry]

(***************************************************************************)
(* The bot of the process (server.py)                                      *)
(***************************************************************************)
\* the requests that are under way in the process at the same time
MaxCallers == 3

Callers == 1..MaxCallers

\* the module as imported: _bot_instance = None (0), _initialized = False;
\* instances counts the bots constructed and initialize_runs the calls of
\* Application.initialize, pc and bot are the position and the local of
\* each call of ensure_initialized
ServerStart ==
    [_bot_instance |-> 0, _initialized |-> FALSE,
     instances |-> 0, initialize_runs |-> 0,
     pc |-> [c \in Callers |-> "start"], bot |-> [c \in Callers |-> 0]]

\* get_bot_instance, run without another call in between
get_bot_instance(s) ==
    IF s._bot_instance = 0
    THEN [s EXCEPT !.instances = @ + 1, !._bot_instance = s.instances + 1]
    ELSE s

\* ensure_initialized, run without another call in between
ensure_initialized(s) ==
    LET g == get_bot_instance(s)
    IN  IF ~g._initialized
        THEN [g EXCEPT !.initialize_runs = @ + 1, !._initialized = TRUE]
        ELSE g

\* the steps of one call of ensure_initialized among others: each request
\* runs it under its own asyncio.run, and nothing in server.py holds a lock
ServerStep(op, s) ==
    /\ server' = s
    /\ event' = Event(op, <<>>, TRUE, "", <<>>, 0)
    /\ UNCHANGED <<userVars, dbVars, now, nudge_sends, otherVars, http>>

\* get_bot_instance: if _bot_instance is None
get_bot_instance_test(c) ==
    /\ server.pc[c] = "start"
    /\ ServerStep("get_bot_instance",
          IF server._bot_instance = 0
          THEN [server EXCEPT !.pc[c] = "construct"]
          ELSE [server EXCEPT !.pc[c] = "test", !.bot[c] = server._bot_instance])

\* get_bot_instance: _bot_instance = GymSupervisorBot(...); return _bot_instance
get_bot_instance_construct(c) ==
    /\ server.pc[c] = "construct"
    /\ ServerStep("construct",
          [server EXCEPT !.instances = @ + 1,
                         !._bot_instance = server.instances + 1,
                         !.bot[c] = server.instances + 1,
                         !.pc[c] = "test"])

\* ensure_initialized: if not _initialized: await bot.app.initialize() begins
ensure_initialized_test(c) ==
    /\ server.pc[c] = "test"
    /\ ServerStep("initialize",
          IF ~server._initialized
          THEN [server EXCEPT !.initialize_runs = @ + 1, !.pc[c] = "initialize"]
          ELSE [server EXCEPT !.pc[c] = "done"])

\* ensure_initialized: initialize() returned; _initialized = True; return bot
ensure_initialized_return(c) ==
    /\ server.pc[c] = "initialize"
    /\ ServerStep("initialized",
          [server EXCEPT !._initialized = TRUE, !.pc[c] = "done"])

\* a value of the decoded response: is says what it is (absent from its
\* dict, null, str, list, dict), v holds the characters, the items or the
\* fields
Json(is, v) == [is |-> is, v |-> v]

\* the quote call: OPENAI_API_KEY as configured, and what the request to
\* the API comes to
QuoteCall(api_key, raises, body) == [api_key |-> api_key, raises |-> raises, body |-> body]

NoBody == Json("absent", <<>>)

\* no key is configured: no request is made
NoKey == QuoteCall(<<>>, "", NoBody)

\* before the first greeting
NoGreeting == [call |-> NoKey, sent |-> FALSE, quote |-> <<>>]

(***************************************************************************)
(* Init: a fresh process on an empty database, after GymDB.__init__        *)
(***************************************************************************)
\* everything but the environment and the message for the parser
Fresh ==
    /\ awaiting_workout_log = FALSE
    /\ workout_draft = NoDraft
    /\ workouts = <<>>
    /\ workout_entries = <<>>
    /\ move_body_areas = _seed_move_body_areas(<<>>)
    /\ weekly_nudges = {}
    /\ now = 0
    /\ nudge_sends = <<>>
    /\ event = Event("init", <<>>, TRUE, "", <<>>, 0)
    /\ snoozes = <<>>
    /\ monthly_reports = {}
    /\ report_sends = <<>>
    /\ http = NoRequest
    /\ reply = NoReply
    /\ server = ServerStart
    /\ greeting = NoGreeting

Init ==
    /\ Fresh
    /\ parser_run = NotParsed
    /\ env = [TELEGRAM_WEBHOOK_SECRET |-> WebhookSecret, CRON_SECRET |-> CronSecret]

(***************************************************************************)
(* Handlers                                                                *)
(***************************************************************************)
\* _is_allowed letting every user in
_is_allowed_anyone(uid) == uid \in Users

_is_allowed(uid) == uid = allowed_user_id

\* _reject_if_unauthorized returned True: the handler returns at once
Rejected(op) ==
    /\ event' = Event(op, <<>>, FALSE, "Unauthorized", <<>>, 0)
    /\ UNCHANGED <<userVars, dbVars, now, nudge_sends, otherVars>>

\* on_button, query.data = did_workout
DidWorkoutButton(uid) ==
    IF ~_is_allowed(uid) THEN Rejected("did_workout")
    ELSE /\ SetUD(_set_awaiting_workout_draft(UD))
         /\ event' = Event("did_workout", <<>>, TRUE, "", <<>>, 0)
         /\ UNCHANGED <<dbVars, now, nudge_sends, otherVars>>

\* on_button, query.data = finish_workout
FinishWorkoutButton(uid, fault) ==
    IF ~_is_allowed(uid) THEN Rejected("finish_workout")
    ELSE LET Reply(r) ==
                 /\ SetUD(r.ud)
                 /\ SetDB(r.db)
                 /\ event' = Event("finish_workout", <<>>, r.ok, r.raised, <<>>, r.written)
                 /\ UNCHANGED <<now, nudge_sends, otherVars>>
         IN  Reply(_finalize_workout_draft(UD, DB, now, fault))

\* on_button, query.data = undo_entry
UndoEntryButton(uid) ==
    IF ~_is_allowed(uid) THEN Rejected("undo_entry")
    ELSE LET r == _undo_last_workout_entry(UD)
         IN  /\ SetUD(r.ud)
             /\ event' = Event("undo_entry", <<>>, r.ok, "", <<>>, 0)
             /\ UNCHANGED <<dbVars, now, nudge_sends, otherVars>>

\* on_button, query.data = cancel_workout
CancelWorkoutButton(uid) ==
    IF ~_is_allowed(uid) THEN Rejected("cancel_workout")
    ELSE /\ SetUD(_reset_workout_draft(UD))
         /\ event' = Event("cancel_workout", <<>>, TRUE, "", <<>>, 0)
         /\ UNCHANGED <<dbVars, now, nudge_sends, otherVars>>

\* a text message that is not a command
capture_sets_message(uid, message_text) ==
    IF ~_is_allowed(uid) THEN Rejected("text")
    ELSE LET Reply(text, r) ==
                 IF text = <<>> \/ ~awaiting_workout_log
                 THEN /\ event' = Event("text", text, FALSE, "", <<>>, 0)
                      /\ UNCHANGED <<userVars, dbVars, now, nudge_sends, otherVars>>
                 ELSE /\ SetUD(r.ud)
                      /\ event' = Event("text", text, r.ok, "", <<>>, 0)
                      /\ UNCHANGED <<dbVars, now, nudge_sends, otherVars>>
             Text(text) == Reply(text, _append_workout_entry(UD, text))
         IN  Text(Strip(message_text))

\* mutant of log_command: the entry is added to the draft as well
log_command_into_draft(uid, args, fault) ==
    IF ~_is_allowed(uid) THEN Rejected("log")
    ELSE LET Reply(text, parsed, logged) ==
                 IF text = <<>>
                 THEN /\ SetUD(_set_awaiting_workout_draft(UD))
                      /\ event' = Event("log", text, TRUE, "", <<>>, 0)
                      /\ UNCHANGED <<dbVars, now, nudge_sends, otherVars>>
                 ELSE IF parsed.workout_type = <<>> \/ parsed.pairs = <<>>
                 THEN /\ event' = Event("log", text, FALSE, "", <<>>, 0)
                      /\ UNCHANGED <<userVars, dbVars, now, nudge_sends, otherVars>>
                 ELSE /\ SetDB(logged.db)
                      /\ SetUD(_append_workout_entry(UD, text).ud)
                      /\ event' = Event("log", text, logged.raised = "", logged.raised,
                                      <<>>, logged.written)
                      /\ UNCHANGED <<now, nudge_sends, otherVars>>
             Parsed(text, parsed) ==
                 Reply(text, parsed,
                       log_workout_with_entries(
                           DB,
                           [i \in DOMAIN parsed.pairs |->
                               [workout_type |-> parsed.workout_type,
                                reps |-> parsed.pairs[i].reps,
                                weight |-> parsed.pairs[i].weight]],
                           text, now, fault))
             Text(text) == Parsed(text, ParseEntry(text))
         IN  Text(Strip(args))

\* /log with the joined arguments args
log_command(uid, args, fault) ==
    IF ~_is_allowed(uid) THEN Rejected("log")
    ELSE LET Reply(text, parsed, logged) ==
                 IF text = <<>>
                 THEN /\ SetUD(_set_awaiting_workout_draft(UD))
                      /\ event' = Event("log", text, TRUE, "", <<>>, 0)
                      /\ UNCHANGED <<dbVars, now, nudge_sends, otherVars>>
                 ELSE IF parsed.workout_type = <<>> \/ parsed.pairs = <<>>
                 THEN /\ event' = Event("log", text, FALSE, "", <<>>, 0)
                      /\ UNCHANGED <<userVars, dbVars, now, nudge_sends, otherVars>>
                 ELSE /\ SetDB(logged.db)
                      /\ event' = Event("log", text, logged.raised = "", logged.raised,
                                      <<>>, logged.written)
                      /\ UNCHANGED <<userVars, now, nudge_sends, otherVars>>
             Parsed(text, parsed) ==
                 Reply(text, parsed,
                       log_workout_with_entries(
                           DB,
                           [i \in DOMAIN parsed.pairs |->
                               [workout_type |-> parsed.workout_type,
                                reps |-> parsed.pairs[i].reps,
                                weight |-> parsed.pairs[i].weight]],
                           text, now, fault))
             Text(text) == Parsed(text, ParseEntry(text))
         IN  Text(Strip(args))

\* check_weekly_deadline_nudges: one evaluation run
check_weekly_deadline_nudges(failing) ==
    LET r == send_weekly_deadline_nudges_now(DB, now, failing)
    IN  /\ SetDB(r.db)
        /\ nudge_sends' = nudge_sends
               \o [i \in DOMAIN r.sent |-> <<_week_start(now), r.sent[i]>>]
        /\ event' = Event("nudges", <<>>, r.raised = "", r.raised, r.sent, 0)
        /\ UNCHANGED <<userVars, now, otherVars>>

\* the process stops and starts again: user_data is lost, the database is
\* kept and GymDB.__init__ runs on it
Restart ==
    /\ awaiting_workout_log' = FALSE
    /\ workout_draft' = NoDraft
    /\ SetDB(_init_db(DB))
    /\ event' = Event("restart", <<>>, TRUE, "", <<>>, 0)
    /\ UNCHANGED <<now, nudge_sends, otherVars>>

\* time passes
Tick(t) ==
    /\ t > now
    /\ now' = t
    /\ event' = Event("tick", <<>>, TRUE, "", <<>>, 0)
    /\ UNCHANGED <<userVars, dbVars, nudge_sends, otherVars>>

(***************************************************************************)
(* The snooze button (bot.py, db.py)                                       *)
(***************************************************************************)
\* GymDB.log_snooze: one row, in a transaction that commits
log_snooze(d, reason, at) ==
    [d EXCEPT !.snoozes = Append(@, [logged_at |-> at, reason |-> Strip(reason)])]

ButtonSnooze == <<"b", "u", "t", "t", "o", "n", "_", "s", "n", "o", "o", "z", "e">>

\* on_button, query.data = snooze
SnoozeButton(uid) ==
    IF ~_is_allowed(uid) THEN Rejected("snooze")
    ELSE /\ SetDB(log_snooze(DB, ButtonSnooze, now))
         /\ event' = Event("snooze", <<>>, TRUE, "", <<>>, 0)
         /\ UNCHANGED <<userVars, now, nudge_sends, otherVars>>

(***************************************************************************)
(* The webhook (api/telegram_webhook.py, server.py)                        *)
(***************************************************************************)
\* process_telegram_update: Application.process_update hands the update to
\* the first handler registered for it
process_telegram_update(update) ==
    CASE update.kind = "did_workout" -> DidWorkoutButton(update.uid)
      [] update.kind = "snooze" -> SnoozeButton(update.uid)
      [] update.kind = "finish_workout" -> FinishWorkoutButton(update.uid, 0)
      [] update.kind = "undo_entry" -> UndoEntryButton(update.uid)
      [] update.kind = "cancel_workout" -> CancelWorkoutButton(update.uid)
      [] update.kind = "text" -> capture_sets_message(update.uid, update.text)
      [] update.kind = "log" -> log_command(update.uid, update.text, 0)

\* a request that ends before anything is processed
Refused(request, status, body) ==
    /\ http' = Response(request, status, body)
    /\ event' = Event(request.endpoint, <<>>, FALSE, body, <<>>, 0)
    /\ UNCHANGED <<userVars, dbVars, now, nudge_sends, otherVars, server>>

\* handler.do_POST of api/telegram_webhook.py
telegram_webhook_do_POST(secret_token, payload) ==
    LET request == Request("telegram_webhook", secret_token, <<>>, "", payload)
        expected_secret == Strip(env.TELEGRAM_WEBHOOK_SECRET)
        header_secret == Strip(secret_token)
    IN  IF expected_secret # <<>> /\ header_secret # expected_secret
        THEN Refused(request, 401, "unauthorized")
        ELSE IF payload = InvalidJson
        THEN Refused(request, 400, "invalid json")
        ELSE /\ server' = ensure_initialized(server)
             /\ process_telegram_update(payload)
             /\ http' = Response(request, 200, "ok")

(***************************************************************************)
(* The period summaries (db.py, bot.py)                                    *)
(***************************************************************************)
\* the order of str: by code point, character after character
CodePoints == <<" ">> \o Digits \o Uppers \o <<"_">> \o Lowers

CodePoint(c) == CHOOSE i \in DOMAIN CodePoints : CodePoints[i] = c

RECURSIVE StrLess(_, _)
StrLess(a, b) ==
    IF b = <<>> THEN FALSE
    ELSE IF a = <<>> THEN TRUE
    ELSE IF a[1] = b[1] THEN StrLess(Tail(a), Tail(b))
    ELSE CodePoint(a[1]) < CodePoint(b[1])

\* max of a set of strings
StrMax(S) == CHOOSE x \in S : \A y \in S : y = x \/ StrLess(y, x)

RECURSIVE SumOf(_, _)
SumOf(f, S) ==
    IF S = {} THEN 0
    ELSE LET x == CHOOSE y \in S : TRUE
         IN  f[x] + SumOf(f, S \ {x})

\* dict(sorted(totals.items(), key=lambda item: (-item[1], item[0]))): the
\* items <<name, count>> in the order of the keys of the dict
RECURSIVE SortedItems(_)
SortedItems(totals) ==
    IF DOMAIN totals = {} THEN <<>>
    ELSE LET first ==
                 CHOOSE a \in DOMAIN totals :
                     \A b \in DOMAIN totals \ {a} :
                         \/ totals[a] > totals[b]
                         \/ totals[a] = totals[b] /\ StrLess(a, b)
         IN  <<<<first, totals[first]>>>>
             \o SortedItems([k \in DOMAIN totals \ {first} |-> totals[k]])

\* SELECT workout_type, COUNT(*) ... WHERE logged_at >= start AND
\* logged_at < end GROUP BY workout_type
SetCountByType(d, start, end) ==
    LET rows == {i \in DOMAIN d.workout_entries :
                    /\ d.workout_entries[i].logged_at >= start
                    /\ d.workout_entries[i].logged_at < end}
        types == {d.workout_entries[i].workout_type : i \in rows}
    IN  [type \in types |->
            Cardinality({i \in rows : d.workout_entries[i].workout_type = type})]

\* MAX(workout_display_name) of the rows of a type in the window
DisplayNameOfType(d, start, end, type) ==
    StrMax({d.workout_entries[i].workout_display_name :
               i \in {j \in DOMAIN d.workout_entries :
                          /\ d.workout_entries[j].logged_at >= start
                          /\ d.workout_entries[j].logged_at < end
                          /\ d.workout_entries[j].workout_type = type}})

\* summarize_sets_by_workout_type_between counting up to end inclusive
summarize_sets_by_workout_type_between_to_end(d, start, end) ==
    LET set_count == SetCountByType(d, start, end + 1)
        types == {type \in DOMAIN set_count : Strip(type) # <<>>}
        Name(type) ==
            IF Strip(DisplayNameOfType(d, start, end + 1, type)) # <<>>
            THEN Strip(DisplayNameOfType(d, start, end + 1, type))
            ELSE Strip(type)
        names == {Name(type) : type \in types}
    IN  SortedItems([name \in names |->
                        set_count[CHOOSE type \in types : Name(type) = name]])

summarize_sets_by_workout_type_between(d, start, end) ==
    LET set_count == SetCountByType(d, start, end)
        types == {type \in DOMAIN set_count : Strip(type) # <<>>}
        Name(type) ==
            IF Strip(DisplayNameOfType(d, start, end, type)) # <<>>
            THEN Strip(DisplayNameOfType(d, start, end, type))
            ELSE Strip(type)
        names == {Name(type) : type \in types}
    IN  SortedItems([name \in names |->
                        set_count[CHOOSE type \in types : Name(type) = name]])

\* summarize_sets_by_body_area_between listing the areas by rising count
summarize_sets_by_body_area_between_ascending(d, start, end) ==
    LET set_count == SetCountByType(d, start, end)
        Area(type) == _lookup_body_area(d.move_body_areas, type)
        areas == {Area(type) : type \in DOMAIN set_count}
        items == SortedItems(
                     [body_area \in areas |->
                         SumOf(set_count,
                               {type \in DOMAIN set_count : Area(type) = body_area})])
    IN  [i \in DOMAIN items |-> items[Len(items) + 1 - i]]

summarize_sets_by_body_area_between(d, start, end) ==
    LET set_count == SetCountByType(d, start, end)
        Area(type) == _lookup_body_area(d.move_body_areas, type)
        areas == {Area(type) : type \in DOMAIN set_count}
    IN  SortedItems(
            [body_area \in areas |->
                SumOf(set_count, {type \in DOMAIN set_count : Area(type) = body_area})])

\* sum(by_workout_type.values())
SumValues(items) ==
    LET f[i \in 0..Len(items)] == IF i = 0 THEN 0 ELSE f[i - 1] + items[i][2]
    IN  f[Len(items)]

period_workout_summary(d, start, end) ==
    [workouts |-> count_workouts_between(d, start, end),
     total_sets |-> SumValues(summarize_sets_by_workout_type_between(d, start, end)),
     by_workout_type |-> summarize_sets_by_workout_type_between(d, start, end),
     by_body_area |-> summarize_sets_by_body_area_between(d, start, end)]

\* _summary_window: the days the period looks back, 0 for ValueError
_summary_window(period) ==
    CASE period = "week" -> 7
      [] period = "month" -> 30
      [] period = "quarter" -> 90
      [] OTHER -> 0

\* _build_period_summary_lines: summary[key] raises KeyError for a key
\* that period_workout_summary did not put in the dict
_build_period_summary_lines(d, t, period) ==
    LET Lines(start, end, summary) ==
            [start |-> start, end |-> end, summary |-> summary,
             raised |-> IF \A key \in {"workouts", "skips", "total_sets", "total_volume",
                                        "by_workout_type", "by_body_area"} :
                              key \in DOMAIN summary
                        THEN "" ELSE "KeyError"]
        Window(start, end) == Lines(start, end, period_workout_summary(d, start, end))
    IN  IF _summary_window(period) = 0
        THEN [start |-> t, end |-> t, summary |-> NoReply.summary, raised |-> "ValueError"]
        ELSE Window(t - Days(_summary_window(period)), t)

\* _send_period_summary: /summary and its variants; a ValueError is
\* answered "Unknown period", any other exception leaves the handler
_send_period_summary(uid, period) ==
    IF ~_is_allowed(uid) THEN Rejected("summary")
    ELSE LET Reply(r) ==
                 /\ reply' = r
                 /\ event' = Event("summary", <<>>, r.raised = "", r.raised, <<>>, 0)
                 /\ UNCHANGED <<userVars, dbVars, now, nudge_sends, report_sends,
                                env, greeting, parser_run>>
         IN  Reply(_build_period_summary_lines(DB, now, period))

(***************************************************************************)
(* The monthly report (bot.py)                                             *)
(***************************************************************************)
\* the months the clock visits: minute 0 is Monday 2025-12-01 00:00, and
\* first is the day, counted from then, on which the month starts
Calendar ==
    << [year |-> 2025, month |-> 11, first |-> -30],
       [year |-> 2025, month |-> 12, first |-> 0],
       [year |-> 2026, month |-> 1, first |-> 31],
       [year |-> 2026, month |-> 2, first |-> 62],
       [year |-> 2026, month |-> 3, first |-> 90] >>

\* date(year, month, day)
Date(year, month, day) == [year |-> year, month |-> month, day |-> day]

\* the fields year, month, day, hour and minute of the datetime t
DateOf(t) ==
    LET Day(d) ==
            LET In(i) ==
                    Date(Calendar[i].year, Calendar[i].month, d - Calendar[i].first + 1)
            IN  In(CHOOSE i \in 1..(Len(Calendar) - 1) :
                       Calendar[i].first <= d /\ d < Calendar[i + 1].first)
    IN  Day(t \div Days(1))

Hour(t) == (t % Days(1)) \div 60

Minute(t) == t % 60

\* _previous_month_window(now)[0]: prev_month_start_date
_previous_month_window(t) ==
    LET Of(today) ==
            IF today.month = 1
            THEN Date(today.year - 1, 12, 1)
            ELSE Date(today.year, today.month - 1, 1)
    IN  Of(DateOf(t))

\* GymDB.monthly_report_sent: is there a marker for the month that starts
\* on period_start
monthly_report_sent(d, period_start) == period_start \in d.monthly_reports

\* GymDB.mark_monthly_report_sent: the marker of the month, written once
mark_monthly_report_sent(d, period_start) ==
    [d EXCEPT !.monthly_reports = @ \cup {period_start}]

\* _send_monthly_summary_if_due without the marker
_send_monthly_summary_if_due_unmarked(d, t, failing) ==
    LET Due(period_start_date) ==
            IF monthly_report_sent(d, period_start_date)
            THEN [db |-> d, reports |-> <<>>, raised |-> ""]
            ELSE IF failing
            THEN [db |-> d, reports |-> <<>>, raised |-> "TelegramError"]
            ELSE [db |-> d, reports |-> <<period_start_date>>, raised |-> ""]
    IN  IF DateOf(t).day # 1
        THEN [db |-> d, reports |-> <<>>, raised |-> ""]
        ELSE Due(_previous_month_window(t))

\* _send_monthly_summary_if_due: reports are the period starts of the
\* reports it delivered; failing: bot.send_message raises
_send_monthly_summary_if_due(d, t, failing) ==
    LET Due(period_start_date) ==
            IF monthly_report_sent(d, period_start_date)
            THEN [db |-> d, reports |-> <<>>, raised |-> ""]
            ELSE IF failing
            THEN [db |-> d, reports |-> <<>>, raised |-> "TelegramError"]
            ELSE [db |-> mark_monthly_report_sent(d, period_start_date),
                  reports |-> <<period_start_date>>, raised |-> ""]
    IN  IF DateOf(t).day # 1
        THEN [db |-> d, reports |-> <<>>, raised |-> ""]
        ELSE Due(_previous_month_window(t))

\* date.toordinal() of the day of t: 2025-12-01 is day 739586
toordinal(t) == 739586 + t \div Days(1)

FallbackQuotes ==
    << <<"S", "m", "a", "l", "l", " ", "s", "t", "e", "p", "s", ",", " ",
         "r", "e", "p", "e", "a", "t", "e", "d", " ", "d", "a", "i", "l",
         "y", ",", " ", "b", "u", "i", "l", "d", " ", "u", "n", "s", "t",
         "o", "p", "p", "a", "b", "l", "e", " ", "m", "o", "m", "e", "n",
         "t", "u", "m", ".">>,
       <<"D", "i", "s", "c", "i", "p", "l", "i", "n", "e", " ", "t", "o",
         "d", "a", "y", " ", "i", "s", " ", "s", "t", "r", "e", "n", "g",
         "t", "h", " ", "t", "o", "m", "o", "r", "r", "o", "w", ".">>,
       <<"S", "h", "o", "w", " ", "u", "p", " ", "f", "o", "r", " ", "t",
         "h", "e", " ", "w", "o", "r", "k", ",", " ", "a", "n", "d", " ",
         "c", "o", "n", "f", "i", "d", "e", "n", "c", "e", " ", "w", "i",
         "l", "l", " ", "f", "o", "l", "l", "o", "w", ".">>,
       <<"C", "o", "n", "s", "i", "s", "t", "e", "n", "c", "y", " ", "b",
         "e", "a", "t", "s", " ", "i", "n", "t", "e", "n", "s", "i", "t",
         "y", " ", "w", "h", "e", "n", " ", "i", "n", "t", "e", "n", "s",
         "i", "t", "y", " ", "i", "s", " ", "i", "n", "c", "o", "n", "s",
         "i", "s", "t", "e", "n", "t", ".">>,
       <<"E", "v", "e", "r", "y", " ", "s", "e", "t", " ", "i", "s", " ",
         "a", " ", "v", "o", "t", "e", " ", "f", "o", "r", " ", "t", "h",
         "e", " ", "p", "e", "r", "s", "o", "n", " ", "y", "o", "u", " ",
         "a", "r", "e", " ", "b", "e", "c", "o", "m", "i", "n", "g", ".">>,
       <<"P", "r", "o", "g", "r", "e", "s", "s", " ", "i", "s", " ", "q",
         "u", "i", "e", "t", ":", " ", "o", "n", "e", " ", "r", "e", "p",
         ",", " ", "o", "n", "e", " ", "s", "e", "t", ",", " ", "o", "n",
         "e", " ", "d", "a", "y", " ", "a", "t", " ", "a", " ", "t", "i",
         "m", "e", ".">>,
       <<"Y", "o", "u", " ", "d", "o", " ", "n", "o", "t", " ", "n", "e",
         "e", "d", " ", "p", "e", "r", "f", "e", "c", "t", " ", "c", "o",
         "n", "d", "i", "t", "i", "o", "n", "s", ",", " ", "o", "n", "l",
         "y", " ", "a", " ", "c", "l", "e", "a", "r", " ", "n", "e", "x",
         "t", " ", "s", "e", "t", ".">> >>

\* _fallback_quote(today)
_fallback_quote(t) == FallbackQuotes[(toordinal(t) % Len(FallbackQuotes)) + 1]

\* str(value) as _extract_quote_text uses it: on a str and on None
Str(value) == IF value.is = "null" THEN <<"N", "o", "n", "e">> ELSE value.v

\* " ".join(parts)
RECURSIVE JoinSpace(_)
JoinSpace(parts) ==
    IF parts = <<>> THEN <<>>
    ELSE IF Len(parts) = 1 THEN parts[1]
    ELSE parts[1] \o <<" ">> \o JoinSpace(Tail(parts))

\* _extract_quote_text(payload): the text, or the exception that a payload
\* of another shape raises (.get on a list, a loop over None)
_extract_quote_text(payload) ==
    LET Text(text) == [raised |-> "", text |-> text]
        Get(dict, key, default) ==
            IF dict.v[key].is = "absent" THEN default ELSE dict.v[key]
        Pieces(content) ==
            SelectSeq([i \in DOMAIN content.v |-> Strip(Str(content.v[i].v.text))],
                      LAMBDA piece : piece # <<>>)
        Kept(content) ==
            Json("list", SelectSeq(content.v,
                LAMBDA c : /\ c.v.type.is = "str"
                           /\ c.v.type.v \in {<<"o", "u", "t", "p", "u", "t", "_", "t", "e", "x", "t">>,
                                              <<"t", "e", "x", "t">>}))
        Parts(output) ==
            LET contents == [i \in DOMAIN output.v |->
                                Get(output.v[i], "content", Json("list", <<>>))]
            IN  IF \E i \in DOMAIN contents : contents[i].is # "list"
                THEN [raised |-> "TypeError", text |-> <<>>]
                ELSE Text(Strip(JoinSpace(
                        [i \in DOMAIN contents |->
                            JoinSpace(Pieces(Kept(contents[i])))])))
        Output(output) ==
            IF output.is # "list" THEN [raised |-> "TypeError", text |-> <<>>]
            ELSE Parts(output)
        First(text) ==
            IF text # <<>> THEN Text(text)
            ELSE Output(Get(payload, "output", Json("list", <<>>)))
    IN  IF payload.is # "dict" THEN [raised |-> "AttributeError", text |-> <<>>]
        ELSE First(Strip(Str(Get(payload, "output_text", Json("str", <<>>)))))

\* the exceptions _generate_morning_quote_sync catches: URLError and its
\* subclass HTTPError, TimeoutError, JSONDecodeError, OSError
CaughtByQuote == {"URLError", "HTTPError", "TimeoutError", "JSONDecodeError", "OSError"}

\* _generate_morning_quote_sync(today): call holds the configured key and
\* what urlopen, read, decode and json.loads come to: an exception or the
\* decoded body
_generate_morning_quote_sync(t, call) ==
    LET Quote(quote) == [raised |-> "", quote |-> quote]
        Extracted(r) ==
            IF r.raised # "" THEN [raised |-> r.raised, quote |-> <<>>]
            ELSE IF r.text # <<>> THEN Quote(r.text)
            ELSE Quote(_fallback_quote(t))
    IN  IF Strip(call.api_key) = <<>> THEN Quote(_fallback_quote(t))
        ELSE IF call.raises \in CaughtByQuote THEN Quote(_fallback_quote(t))
        ELSE IF call.raises # "" THEN [raised |-> call.raises, quote |-> <<>>]
        ELSE Extracted(_extract_quote_text(call.body))

\* send_morning_greeting_now: the quote, the greeting, then the report if
\* it is due; failing = 1: sending the greeting raises, 2: sending the
\* report raises
send_morning_greeting_now(d, t, failing, call) ==
    LET Greeted(quote, monthly) ==
            [db |-> monthly.db, sent |-> <<"greeting">>, reports |-> monthly.reports,
             raised |-> monthly.raised, quote |-> quote]
        Failed(raised) ==
            [db |-> d, sent |-> <<>>, reports |-> <<>>, raised |-> raised,
             quote |-> <<>>]
        With(q) ==
            IF q.raised # "" THEN Failed(q.raised)
            ELSE IF failing = 1 THEN Failed("TelegramError")
            ELSE Greeted(q.quote, _send_monthly_summary_if_due(d, t, failing = 2))
    IN  With(_generate_morning_quote_sync(t, call))

(***************************************************************************)
(* The scheduled triggers (api/morning_greeting.py, api/weekly_nudges.py)  *)
(***************************************************************************)
Bearer == <<"B", "e", "a", "r", "e", "r", " ">>

\* _authorized(headers), the same in both modules
_authorized(request) ==
    LET cron_secret == Strip(env.CRON_SECRET)
    IN  IF cron_secret = <<>>
        THEN request.vercel_cron = "1"
        ELSE request.authorization = Bearer \o cron_secret

\* server.send_morning_greeting_once, run to its end by asyncio.run
send_morning_greeting_once(request, failing, call) ==
    LET Ran(r) ==
            /\ server' = ensure_initialized(server)
            /\ SetDB(r.db)
            /\ report_sends' = report_sends \o r.reports
            /\ event' = Event("morning_greeting", <<>>, r.raised = "", r.raised,
                              r.sent, Len(r.reports))
            /\ http' = IF r.raised # "" THEN Response(request, 500, "failed")
                       ELSE Response(request, 200, "sent")
            /\ greeting' = [call |-> call, sent |-> r.sent # <<>>, quote |-> r.quote]
            /\ UNCHANGED <<userVars, now, nudge_sends, env, reply, parser_run>>
    IN  Ran(send_morning_greeting_now(DB, now, failing, call))

\* handler.do_GET of api/morning_greeting.py without the test of the hour
morning_greeting_do_GET_any_hour(authorization, vercel_cron, failing, call) ==
    LET request == Request("morning_greeting", <<>>, authorization, vercel_cron, NoUpdate)
    IN  IF ~_authorized(request)
        THEN Refused(request, 401, "unauthorized")
        ELSE send_morning_greeting_once(request, failing, call)

\* handler.do_GET of api/morning_greeting.py
morning_greeting_do_GET(authorization, vercel_cron, failing, call) ==
    LET request == Request("morning_greeting", <<>>, authorization, vercel_cron, NoUpdate)
    IN  IF ~_authorized(request)
        THEN Refused(request, 401, "unauthorized")
        ELSE IF Hour(now) # 8
        THEN Refused(request, 200, "skipped (not 8am Pacific)")
        ELSE send_morning_greeting_once(request, failing, call)

\* server.send_weekly_nudges_once: one evaluation run of the deadlines
send_weekly_nudges_once(failing) == check_weekly_deadline_nudges(failing)

\* handler.do_GET of api/weekly_nudges.py
weekly_nudges_do_GET(authorization, vercel_cron, failing) ==
    LET request == Request("weekly_nudges", <<>>, authorization, vercel_cron, NoUpdate)
    IN  IF ~_authorized(request)
        THEN Refused(request, 401, "unauthorized")
        ELSE /\ server' = ensure_initialized(server)
             /\ send_weekly_nudges_once(failing)
             /\ http' = IF event'.raised # "" THEN Response(request, 500, "failed")
                        ELSE Response(request, 200, "ok")

(***************************************************************************)
(* Specifications                                                          *)
(***************************************************************************)
\* the conversation: draft, finish, /log, restart, at a fixed time
\* (no request reaches an endpoint: the bot polls for its updates)
Next ==
    \/ \E uid \in Users : DidWorkoutButton(uid) /\ UNCHANGED <<http, server>>
    \/ \E uid \in Users, text \in Texts :
          /\ Len(workout_draft.batches) < MaxBatches
          /\ capture_sets_message(uid, text)
          /\ UNCHANGED <<http, server>>
    \/ \E uid \in Users : UndoEntryButton(uid) /\ UNCHANGED <<http, server>>
    \/ \E uid \in Users, fault \in 0..MaxFault :
          /\ Len(workouts) < MaxWorkouts
          /\ FinishWorkoutButton(uid, fault)
          /\ UNCHANGED <<http, server>>
    \/ \E uid \in Users : CancelWorkoutButton(uid) /\ UNCHANGED <<http, server>>
    \/ \E uid \in Users, text \in LogTexts, fault \in 0..MaxFault :
          /\ Len(workouts) < MaxWorkouts
          /\ log_command(uid, text, fault)
          /\ UNCHANGED <<http, server>>
    \/ Restart /\ UNCHANGED <<http, server>>

Spec == Init /\ [][Next]_vars

\* the weeks: the clock, quick logs, the evaluation runs, restarts
NextWeek ==
    \/ \E t \in Instants : Tick(t) /\ UNCHANGED <<http, server>>
    \/ \E text \in WeekTexts, fault \in 0..MaxFault :
          /\ Len(workouts) < MaxWeekWorkouts
          /\ log_command(allowed_user_id, text, fault)
          /\ UNCHANGED <<http, server>>
    \/ \E failing \in 0..Len(WEEKLY_MILESTONES) :
          check_weekly_deadline_nudges(failing) /\ UNCHANGED <<http, server>>
    \/ Restart /\ UNCHANGED <<http, server>>

SpecWeek == Init /\ [][NextWeek]_vars

\* the webhook: updates of both users, with and without the secret
MaxServerWorkouts == 1

MaxSnoozes == 1

WrongSecret == <<"n", "o">>

SecretTokens == {<<>>, WebhookSecret, WrongSecret}

Updates ==
    {Update(uid, kind, <<>>) :
        uid \in Users,
        kind \in {"did_workout", "snooze", "finish_workout", "undo_entry",
                  "cancel_workout"}}
    \cup {Update(uid, "text", TextVUp) : uid \in Users}
    \cup {Update(uid, "log", TextZz) : uid \in Users}

InitServer ==
    /\ Fresh
    /\ parser_run = NotParsed
    /\ env \in Environments

NextWebhook ==
    \E secret_token \in SecretTokens, payload \in Updates \cup {InvalidJson} :
        /\ payload.kind \in {"finish_workout", "log"}
              => Len(workouts) < MaxServerWorkouts
        /\ payload.kind = "snooze" => Len(snoozes) < MaxSnoozes
        /\ payload.kind = "text" => Len(workout_draft.batches) < MaxBatches
        /\ telegram_webhook_do_POST(secret_token, payload)

SpecWebhook == InitServer /\ [][NextWebhook]_vars

\* the scheduled triggers and the clock: the first of December around
\* 8 o'clock, the second, and the first of January
CronInstants ==
    {TimeOfDay(8, 0), TimeOfDay(8, 30), TimeOfDay(9, 0),
     Days(1) + TimeOfDay(8, 0),
     Days(31) + TimeOfDay(8, 0), Days(31) + TimeOfDay(8, 59)}

Authorizations == {<<>>, Bearer \o CronSecret, Bearer \o WrongSecret}

CronHeaders == {"", "1"}

NextCron ==
    \/ \E authorization \in Authorizations, vercel_cron \in CronHeaders,
          failing \in 0..2 :
          morning_greeting_do_GET(authorization, vercel_cron, failing, NoKey)
    \/ \E authorization \in Authorizations, vercel_cron \in CronHeaders,
          failing \in 0..1 :
          weekly_nudges_do_GET(authorization, vercel_cron, failing)
    \/ \E t \in CronInstants : Tick(t) /\ UNCHANGED <<http, server>>

SpecCron == InitServer /\ [][NextCron]_vars

\* the parser on its own: messages written from a label and sets
MaxSets == 2

BenchPress == <<"b", "e", "n", "c", "h", " ", "p", "r", "e", "s", "s">>

\* the same label as a user may type it
BenchPressTyped == <<"B", "e", "n", "c", "h", " ", " ", "P", "r", "e", "s", "s", ":">>

Labels == {BenchPress, BenchPressTyped}

\* the sets a message may hold, weight in tenths: within the bounds, on
\* them and beyond them
SetValues ==
    {[weight |-> 200, reps |-> 8], [weight |-> 300, reps |-> 8],
     [weight |-> 305, reps |-> 100], [weight |-> 20000, reps |-> 1],
     [weight |-> 20005, reps |-> 8], [weight |-> 0, reps |-> 8],
     [weight |-> 200, reps |-> 0], [weight |-> 200, reps |-> 101],
     [weight |-> 25000, reps |-> 8], [weight |-> 123450, reps |-> 8]}

\* what a message puts between a weight and its reps: 20x8, 20X8, 20@8,
\* 20 x 8, 20lbx8, 20 Lb @ 8
Separators ==
    {<<"x">>, <<"X">>, <<"@">>, <<" ", "x", " ">>, <<"l", "b", "x">>,
     <<" ", "L", "b", " ", "@", " ">>}

\* no separator, as in 20 8
Blank == <<" ">>

\* str(n) of a natural number
RECURSIVE FormatNat(_)
FormatNat(n) ==
    IF n < 10 THEN <<Digits[n + 1]>>
    ELSE FormatNat(n \div 10) \o <<Digits[(n % 10) + 1]>>

\* a weight as it is typed: 20 or 30.5
FormatWeight(tenths) ==
    IF tenths % 10 = 0 THEN FormatNat(tenths \div 10)
    ELSE FormatNat(tenths \div 10) \o <<".">> \o FormatNat(tenths % 10)

\* the sets as they are typed, separated by ", "
RECURSIVE FormatSets(_, _)
FormatSets(sets, separator) ==
    IF sets = <<>> THEN <<>>
    ELSE FormatWeight(sets[1].weight) \o separator \o FormatNat(sets[1].reps)
         \o (IF Len(sets) = 1 THEN <<>>
             ELSE <<",", " ">> \o FormatSets(Tail(sets), separator))

\* the text of a message: the label, the sets, and after them the
\* trailing characters
FormatMessage(message) ==
    message.label \o <<" ">> \o FormatSets(message.sets, message.separator)
    \o message.trailing

SetSeqs == UNION {[1..n -> SetValues] : n \in 0..MaxSets}

\* messages with a separator, and messages of bare numbers with and without
\* one more number at the end
Messages ==
    {[label |-> label, sets |-> sets, separator |-> separator, trailing |-> <<>>] :
        label \in Labels, sets \in SetSeqs, separator \in Separators}
    \cup {[label |-> label, sets |-> sets, separator |-> Blank, trailing |-> trailing] :
            label \in Labels, sets \in SetSeqs, trailing \in {<<>>, <<" ", "5">>}}

\* a message arrives: its text is not parsed yet
Received(message) ==
    [message |-> message, text |-> FormatMessage(message), parsed |-> FALSE,
     result |-> NoEntry]

InitParse ==
    /\ Fresh
    /\ env = [TELEGRAM_WEBHOOK_SECRET |-> WebhookSecret, CRON_SECRET |-> CronSecret]
    /\ \E message \in Messages : parser_run = Received(message)

\* _parse_workout_entry on the text of the message
parse_message ==
    /\ ~parser_run.parsed
    /\ parser_run' = [parser_run EXCEPT !.parsed = TRUE,
                                        !.result = _parse_workout_entry(parser_run.text)]
    /\ UNCHANGED <<userVars, dbVars, now, nudge_sends, event, report_sends,
                   env, http, reply, server, greeting>>

NextParse == parse_message

SpecParse == InitParse /\ [][NextParse]_vars

\* the summaries: quick logs of mapped and unmapped moves at several
\* instants, and the summaries of the periods
MaxReportWorkouts == 2

TextBench ==
    <<"B", "e", "n", "c", "h", " ", "P", "r", "e", "s", "s", " ",
      "2", "0", "x", "8", ",", "2", "0", "x", "8", ",", "2", "0", "x", "8">>

TextUnknown ==
    <<"u", "n", "k", "n", "o", "w", "n", "m", "o", "v", "e", " ",
      "1", "0", "x", "5", ",", "1", "0", "x", "5">>

TextZzTop == <<"Z", "z", " ", " ", "T", "o", "p", " ", "2", "0", "x", "8">>

ReportTexts == {TextBench, TextUnknown, TextZzTop, TextVUp}

\* the clock of the summaries: a day and eight days after the start
ReportInstants == {Days(1), Days(8)}

Periods == {"week", "month", "quarter", "year"}

NextReport ==
    \/ \E text \in ReportTexts :
          /\ Len(workouts) < MaxReportWorkouts
          /\ log_command(allowed_user_id, text, 0)
          /\ UNCHANGED <<http, server>>
    \/ \E uid \in Users, period \in Periods :
          _send_period_summary(uid, period) /\ UNCHANGED <<http, server>>
    \/ \E t \in ReportInstants : Tick(t) /\ UNCHANGED <<http, server>>

SpecReport == Init /\ [][NextReport]_vars

\* the startup pass on a database an earlier version left behind: entries
\* whose type and label are not canonical, and a taxonomy table that is
\* empty, stale or seeded
MaxLegacyEntries == 2

\* workout_type and workout_display_name as earlier versions stored them:
\* the columns added with DEFAULT '', the typed name, a name without any
\* letter or digit
LegacyNames ==
    {[workout_type |-> <<>>, workout_display_name |-> <<>>],
     [workout_type |-> <<"V", " ", "U", "p">>, workout_display_name |-> <<>>],
     [workout_type |-> <<>>, workout_display_name |-> <<"V", " ", " ", "U", "p">>],
     [workout_type |-> <<"r", "d", "l">>, workout_display_name |-> <<"R", "D", "L">>],
     [workout_type |-> <<"Z", "z", " ", "T", "o", "p">>, workout_display_name |-> <<>>],
     [workout_type |-> <<"!", "!">>, workout_display_name |-> <<"V", " ", "U", "p">>]}

\* the entries of one legacy workout
LegacyEntries(names) ==
    [i \in DOMAIN names |->
        [id |-> i, workout_id |-> 1,
         workout_type |-> names[i].workout_type,
         workout_display_name |-> names[i].workout_display_name,
         reps |-> 8, weight |-> 200, logged_at |-> 0, source_text |-> <<>>]]

\* move_body_areas before the startup: not yet filled, filled by an earlier
\* seed (another area for v up, a move the seed no longer has), up to date
LegacyTables ==
    {<<>>,
     [k \in {<<"v", "u", "p">>, <<"o", "l", "d">>} |->
         [display_label |-> k, body_area |-> <<"a", "b", "s">>]],
     _seed_move_body_areas(<<>>)}

InitLegacy ==
    /\ \E names \in UNION {[1..n -> LegacyNames] : n \in 0..MaxLegacyEntries} :
          /\ workout_entries = LegacyEntries(names)
          /\ workouts = IF names = <<>> THEN <<>>
                        ELSE <<[id |-> 1, logged_at |-> 0, sets |-> Len(names),
                                note |-> <<>>]>>
    /\ move_body_areas \in LegacyTables
    /\ awaiting_workout_log = FALSE
    /\ workout_draft = NoDraft
    /\ weekly_nudges = {}
    /\ now = 0
    /\ nudge_sends = <<>>
    /\ event = Event("init", <<>>, TRUE, "", <<>>, 0)
    /\ snoozes = <<>>
    /\ monthly_reports = {}
    /\ report_sends = <<>>
    /\ reply = NoReply
    /\ server = ServerStart
    /\ greeting = NoGreeting
    /\ env = [TELEGRAM_WEBHOOK_SECRET |-> WebhookSecret, CRON_SECRET |-> CronSecret]
    /\ http = NoRequest
    /\ parser_run = NotParsed

NextStartup == Restart /\ UNCHANGED <<http, server>>

SpecStartup == InitLegacy /\ [][NextStartup]_vars

\* several requests call ensure_initialized in one process
NextInit ==
    \/ \E c \in Callers : get_bot_instance_test(c)
    \/ \E c \in Callers : get_bot_instance_construct(c)
    \/ \E c \in Callers : ensure_initialized_test(c)
    \/ \E c \in Callers : ensure_initialized_return(c)

SpecInit == Init /\ [][NextInit]_vars

\* the morning greeting with every outcome of the quote call
Sk == <<"s", "k">>

Dict(output_text, output) == Json("dict", [output_text |-> output_text, output |-> output])

\* one item of output: a dict with its content
Item(content) == Json("dict", [content |-> content])

\* one element of content: {"type": ..., "text": ...}
Content(type, text) == Json("dict", [type |-> Json("str", type), text |-> Json("str", text)])

\* no key; the request fails (transport, error status, timeout, a body cut
\* short); the body is not JSON or not UTF-8; the body is JSON: {}, a quote
\* in output_text, a quote in output, a list, output null, content null,
\* output_text null
QuoteCalls ==
    << NoKey,
       QuoteCall(Sk, "URLError", NoBody),
       QuoteCall(Sk, "HTTPError", NoBody),
       QuoteCall(Sk, "TimeoutError", NoBody),
       QuoteCall(Sk, "IncompleteRead", NoBody),
       QuoteCall(Sk, "JSONDecodeError", NoBody),
       QuoteCall(Sk, "UnicodeDecodeError", NoBody),
       QuoteCall(Sk, "", Dict(NoBody, NoBody)),
       QuoteCall(Sk, "", Dict(Json("str", <<" ", "L", "i", "f", "t", ".">>), NoBody)),
       QuoteCall(Sk, "", Dict(Json("str", <<" ">>),
           Json("list", <<Item(Json("list",
               <<Content(<<"o", "u", "t", "p", "u", "t", "_", "t", "e", "x", "t">>,
                         <<" ", "G", "o", ".", " ">>),
                 Content(<<"r", "e", "f", "u", "s", "a", "l">>, <<"n", "o">>),
                 Content(<<"t", "e", "x", "t">>, <<"N", "o", "w", ".">>)>>))>>))),
       QuoteCall(Sk, "", Json("list", <<>>)),
       QuoteCall(Sk, "", Dict(NoBody, Json("null", <<>>))),
       QuoteCall(Sk, "", Dict(NoBody, Json("list", <<Item(Json("null", <<>>))>>))),
       QuoteCall(Sk, "", Dict(Json("null", <<>>), NoBody)) >>

NextGreeting ==
    \/ \E authorization \in Authorizations, vercel_cron \in CronHeaders,
          failing \in 0..2, i \in DOMAIN QuoteCalls :
          morning_greeting_do_GET(authorization, vercel_cron, failing, QuoteCalls[i])
    \/ \E t \in CronInstants : Tick(t) /\ UNCHANGED <<http, server>>

SpecGreeting == Init /\ [][NextGreeting]_vars

(***************************************************************************)
(* Properties                                                              *)
(***************************************************************************)
\* the step was a handler run for the allow-listed user
StepOf(op) == event'.op = op /\ event'.raised # "Unauthorized"

RowsUnchanged == workouts' = workouts /\ workout_entries' = workout_entries

ConversationUnchanged ==
    awaiting_workout_log' = awaiting_workout_log /\ workout_draft' = workout_draft

\* one triple per pair of the draft, in batch order then pair order
Triples(draft) ==
    LET f[i \in 0..Len(draft.batches)] ==
            IF i = 0 THEN <<>>
            ELSE f[i - 1] \o [j \in DOMAIN draft.batches[i].pairs |->
                                 [workout_type |-> draft.batches[i].workout_type,
                                  reps |-> draft.batches[i].pairs[j].reps,
                                  weight |-> draft.batches[i].pairs[j].weight]]
    IN  f[Len(draft.batches)]

\* the triples whose workout type keeps at least one character of [a-z0-9]
KeyedTriples(triples) ==
    SelectSeq(triples, LAMBDA t : _normalize_workout_type_key(t.workout_type) # <<>>)

\* the rows a step appended to workout_entries
NewEntries == SubSeq(workout_entries', Len(workout_entries) + 1, Len(workout_entries'))

\* the step appended one workouts row and its entry rows, one per triple
AddsWorkoutOf(triples) ==
    /\ Len(workouts') = Len(workouts) + 1
    /\ SubSeq(workouts', 1, Len(workouts)) = workouts
    /\ SubSeq(workout_entries', 1, Len(workout_entries)) = workout_entries
    /\ Len(NewEntries) = Len(triples)
    /\ \A k \in DOMAIN NewEntries :
          /\ NewEntries[k].workout_id = workouts'[Len(workouts')].id
          /\ NewEntries[k].workout_type = _normalize_workout_type_key(triples[k].workout_type)
          /\ NewEntries[k].reps = triples[k].reps
          /\ NewEntries[k].weight = triples[k].weight

\* C1: a finish on a draft whose flattened triple list is empty fails and
\* changes nothing: no workouts row, no workout_entries row, the same
\* batches, the same awaiting flag.
C1_EmptyFinishChangesNothing ==
    [][(StepOf("finish_workout") /\ Triples(workout_draft) = <<>>)
          => (~event'.ok /\ RowsUnchanged /\ ConversationUnchanged)]_vars

C1_Witness ==
    /\ event.op = "finish_workout"
    /\ event.raised = ""
    /\ ~event.ok
    /\ awaiting_workout_log
    /\ workout_draft.present
    /\ workout_draft.batches = <<>>

\* C2: a successful finish persists exactly one Workout whose entries are
\* the flattened triples of all draft batches, one entry per draft pair in
\* batch order then pair order, and leaves the conversation idle with an
\* empty draft.
C2_FinishPersistsEveryTriple ==
    [][(StepOf("finish_workout") /\ event'.ok)
          => /\ AddsWorkoutOf(Triples(workout_draft))
             /\ ~awaiting_workout_log'
             /\ workout_draft'.batches = <<>>]_vars

\* C3: every log_workout call (from finish or from /log) either adds one
\* workouts row with all of its entry rows, or adds no row at all; a call
\* that raises adds no row.
C3_LogWorkoutAtomic ==
    [][(StepOf("finish_workout") \/ StepOf("log"))
          => LET triples ==
                     IF event'.op = "finish_workout" THEN Triples(workout_draft)
                     ELSE [i \in DOMAIN ParseEntry(event'.text).pairs |->
                              [workout_type |-> ParseEntry(event'.text).workout_type,
                               reps |-> ParseEntry(event'.text).pairs[i].reps,
                               weight |-> ParseEntry(event'.text).pairs[i].weight]]
             IN  /\ RowsUnchanged \/ AddsWorkoutOf(KeyedTriples(triples))
                 /\ event'.raised # "" => RowsUnchanged
                 /\ KeyedTriples(triples) = <<>> => RowsUnchanged]_vars

\* a write that failed after the workouts row was written left no row behind
C3_Witness ==
    /\ event.op \in {"finish_workout", "log"}
    /\ event.raised = "OperationalError"
    /\ event.written >= 1
    /\ workouts = <<>>
    /\ workout_entries = <<>>

EntriesOf(workout_id) == {i \in DOMAIN workout_entries : workout_entries[i].workout_id = workout_id}

\* C4: each workouts row owns at least one workout_entries row and its sets
\* column is the number of workout_entries rows that reference it.
C4_SetsIsEntryCount ==
    \A w \in DOMAIN workouts :
        /\ EntriesOf(workouts[w].id) # {}
        /\ workouts[w].sets = Cardinality(EntriesOf(workouts[w].id))

\* a workout saved from a draft that also held a batch without a key
C4_Witness ==
    /\ event.op = "finish_workout"
    /\ event.ok
    /\ \E w \in DOMAIN workouts :
          /\ workouts[w].sets = 2
          /\ workouts[w].note = TextJunk \o <<" ", "|", " ">> \o TextVUp

\* C7: while awaiting, a text the parser cannot turn into a workout type and
\* at least one pair changes neither the draft nor the awaiting flag nor the
\* database.
C7_UnparsableTextChangesNothing ==
    [][(/\ StepOf("text")
        /\ awaiting_workout_log
        /\ \/ ParseEntry(event'.text).workout_type = <<>>
           \/ ParseEntry(event'.text).pairs = <<>>)
          => (~event'.ok /\ ConversationUnchanged /\ UNCHANGED dbVars)]_vars

C7_Witness ==
    /\ event.op = "text"
    /\ event.raised = ""
    /\ event.text = TextOutOfBounds
    /\ ~event.ok
    /\ awaiting_workout_log
    /\ workout_draft.batches # <<>>

\* C8: while awaiting, a text that parses appends exactly one batch (its text,
\* workout type and pairs) at the end of the draft, keeps the earlier batches,
\* keeps awaiting mode and writes nothing to the database.
C8_ParsedTextAppendsOneBatch ==
    [][(/\ StepOf("text")
        /\ awaiting_workout_log
        /\ ParseEntry(event'.text).workout_type # <<>>
        /\ ParseEntry(event'.text).pairs # <<>>)
          => /\ event'.ok
             /\ workout_draft'.batches =
                    Append(workout_draft.batches,
                           [text |-> event'.text,
                            workout_type |-> ParseEntry(event'.text).workout_type,
                            pairs |-> ParseEntry(event'.text).pairs])
             /\ awaiting_workout_log'
             /\ UNCHANGED dbVars]_vars

C8_Witness ==
    /\ event.op = "text"
    /\ event.ok
    /\ awaiting_workout_log
    /\ Len(workout_draft.batches) = 2
    /\ workout_draft.batches[1].text = TextJunk
    /\ workout_draft.batches[2].text = TextVUp

\* C9: undo removes the last batch and keeps the earlier ones in order; on a
\* draft without batches it changes nothing; the awaiting flag and the
\* database stay as they were.
C9_UndoPopsLastBatch ==
    [][StepOf("undo_entry")
          => /\ workout_draft'.batches =
                    IF workout_draft.batches = <<>> THEN <<>>
                    ELSE SubSeq(workout_draft.batches, 1, Len(workout_draft.batches) - 1)
             /\ event'.ok <=> workout_draft.batches # <<>>
             /\ awaiting_workout_log' = awaiting_workout_log
             /\ UNCHANGED dbVars]_vars

C9_Witness ==
    /\ event.op = "undo_entry"
    /\ event.ok
    /\ awaiting_workout_log
    /\ Len(workout_draft.batches) = 1
    /\ workout_draft.batches[1].text = TextVUp

\* C10: cancel, whatever the state and the draft, leaves the conversation
\* idle with an empty draft and creates no workouts or workout_entries row.
C10_CancelDiscardsDraft ==
    [][StepOf("cancel_workout")
          => /\ ~awaiting_workout_log'
             /\ workout_draft'.batches = <<>>
             /\ RowsUnchanged]_vars

C10_Witness ==
    /\ event.op = "cancel_workout"
    /\ event.ok
    /\ ~awaiting_workout_log
    /\ workout_draft = EmptyDraft
    /\ workouts # <<>>

(***************************************************************************)
(* Properties of the weekly nudges                                         *)
(***************************************************************************)
\* Monday 00:00 of the week of t
MondayOf(t) == t - (t % Days(7))

\* milestone 1: Tuesday 20:00, 2: Thursday 20:00, 3: Sunday 16:00
DeadlineOf(week_start, milestone) ==
    week_start + (CASE milestone = 1 -> Days(1) + TimeOfDay(20, 0)
                    [] milestone = 2 -> Days(3) + TimeOfDay(20, 0)
                    [] milestone = 3 -> Days(6) + TimeOfDay(16, 0))

MarkedIn(table, week_start, milestone) ==
    \E row \in table : row.week_start = week_start /\ row.milestone = milestone

\* the number of workouts logged at a time in [from, to)
LoggedIn(from, to) ==
    Cardinality({i \in DOMAIN workouts :
                    workouts[i].logged_at >= from /\ workouts[i].logged_at < to})

Delivered(milestone) == \E i \in DOMAIN event'.sent : event'.sent[i] = milestone

C6_CountSinceWeekStart ==
    [][(event'.op = "nudges" /\ event'.raised = "")
          => \A m \in 1..3 :
                /\ Delivered(m) <=>
                      /\ ~MarkedIn(weekly_nudges, MondayOf(now), m)
                      /\ now >= DeadlineOf(MondayOf(now), m)
                      /\ LoggedIn(MondayOf(now), now + 1) < m
                /\ Delivered(m) => MarkedIn(weekly_nudges', MondayOf(now), m)]_vars

\* C6 as amended: the workouts counted are those logged in
\* [week_start, deadline).  A delivered nudge was due and is marked; a run in
\* which no send fails delivers every due nudge; no other mark is written.
C6_CountBeforeDeadline ==
    [][event'.op = "nudges"
          => \A m \in 1..3 :
                LET due == /\ ~MarkedIn(weekly_nudges, MondayOf(now), m)
                           /\ now >= DeadlineOf(MondayOf(now), m)
                           /\ LoggedIn(MondayOf(now), DeadlineOf(MondayOf(now), m)) < m
                IN  /\ Delivered(m) => due /\ MarkedIn(weekly_nudges', MondayOf(now), m)
                    /\ (event'.raised = "" /\ due) => Delivered(m)
                    /\ ~Delivered(m) =>
                          (MarkedIn(weekly_nudges', MondayOf(now), m)
                              <=> MarkedIn(weekly_nudges, MondayOf(now), m))]_vars

\* a nudge delivered although a workout was logged after the deadline
C6_Witness ==
    /\ event.op = "nudges"
    /\ event.sent = <<1>>
    /\ Len(workouts) = 1
    /\ workouts[1].logged_at >= DeadlineOf(0, 1)
    /\ now < DeadlineOf(0, 2)

(***************************************************************************)
(* The endpoints                                                           *)
(***************************************************************************)
\* the step is a request to an endpoint, and http' is that request with
\* its response
RequestStep == event'.op # "tick"

\* C11: an update (a command, a button press or a text message) whose sender
\* is not the allowed user is rejected, and it changes neither the awaiting
\* flag, nor the draft, nor any table (workouts, entries, snoozes, the nudge
\* and the report markers, the taxonomy)
C11_StrangerChangesNothing ==
    [][(/\ RequestStep
        /\ http'.endpoint = "telegram_webhook"
        /\ http'.update \in Updates
        /\ http'.update.uid # allowed_user_id)
       => /\ UNCHANGED <<userVars, dbVars>>
          /\ http'.status = 200 => event'.raised = "Unauthorized"]_vars

\* a stranger pressed the snooze button while the owner had a draft open
C11_Witness ==
    /\ http.status = 200
    /\ http.update.uid = "stranger"
    /\ http.update.kind = "snooze"
    /\ event.op = "snooze"
    /\ event.raised = "Unauthorized"
    /\ awaiting_workout_log
    /\ Len(workout_draft.batches) > 0

\* the request carries the shared secret of its endpoint or, for a
\* scheduled trigger, the header of the trusted source
CarriesSecret(request) ==
    IF request.endpoint = "telegram_webhook"
    THEN /\ Strip(env.TELEGRAM_WEBHOOK_SECRET) # <<>>
         /\ Strip(request.secret_token) = Strip(env.TELEGRAM_WEBHOOK_SECRET)
    ELSE \/ /\ Strip(env.CRON_SECRET) # <<>>
            /\ request.authorization = Bearer \o Strip(env.CRON_SECRET)
         \/ request.vercel_cron = "1"

\* C12: a request to the webhook or to a scheduled trigger that carries
\* neither the valid shared secret nor (scheduled triggers) the header of
\* the trusted source is answered 401, and no update is processed, no
\* greeting or report is sent and no nudge is evaluated
C12_NoSecretIs401 ==
    [][(RequestStep /\ ~CarriesSecret(http'))
       => /\ http'.status = 401
          /\ UNCHANGED <<userVars, dbVars, nudge_sends, report_sends>>
          /\ event'.sent = <<>>]_vars

\* the step is a request to the morning greeting trigger
GreetingStep == event'.op = "morning_greeting"

Skipped == "skipped (not 8am Pacific)"

\* the call sent nothing and wrote nothing
NothingSent ==
    /\ event'.sent = <<>>
    /\ UNCHANGED <<dbVars, report_sends, nudge_sends>>

\* C13 as stated: the morning greeting trigger sends a greeting only when
\* the time in the fixed zone is 08:00, and an authorized call at any other
\* time sends nothing and reports a skip
C13_GreetsOnlyAt0800 ==
    [][GreetingStep
       => /\ event'.sent # <<>> => (Hour(now) = 8 /\ Minute(now) = 0)
          /\ (_authorized(http') /\ ~(Hour(now) = 8 /\ Minute(now) = 0))
                => (NothingSent /\ http'.status = 200 /\ http'.body = Skipped)]_vars

\* C13, amended: the morning greeting trigger sends a greeting only when the
\* hour of the time in the fixed zone is 8 (08:00 to 08:59), and an
\* authorized call in any other hour sends nothing and reports a skip
C13_GreetsOnlyInHour8 ==
    [][GreetingStep
       => /\ event'.sent # <<>> => Hour(now) = 8
          /\ (_authorized(http') /\ Hour(now) # 8)
                => (NothingSent /\ http'.status = 200 /\ http'.body = Skipped)]_vars

\* a greeting went out at 08:30, and the authorized call at 09:00 was skipped
C13_Witness ==
    /\ event.op = "morning_greeting"
    /\ now = TimeOfDay(9, 0)
    /\ _authorized(http)
    /\ http.body = Skipped
    /\ report_sends # <<>>
    /\ \E period \in monthly_reports : period.month = 11

\* the first day of the calendar month before the month of t
MonthBefore(t) ==
    LET today == DateOf(t)
        before == DateOf(t - Days(today.day))
    IN  Date(before.year, before.month, 1)

Parsed == parser_run.parsed

\* the pair a set of the message stands for
PairOf(set) == [reps |-> set.reps, weight |-> set.weight]

\* reps from 1 to 100, weight above 0 and up to 2000 (in tenths)
WithinBounds(pair) ==
    /\ pair.reps \in 1..100
    /\ pair.weight \in 1..20000

\* the pairs of a message: its sets within the bounds, in their order
PairsOf(message) ==
    LET pairs == [i \in DOMAIN message.sets |-> PairOf(message.sets[i])]
    IN  SelectSeq(pairs, WithinBounds)

BenchPressExample ==
    <<"b", "e", "n", "c", "h", " ", "p", "r", "e", "s", "s", " ",
      "2", "0", "x", "8", ",", " ", "3", "0", "x", "8">>

\* C19: with separators in the message the parser returns one pair per
\* accepted match, in the order of the message, the weight read before the
\* separator and the reps after it, under the normalised label; the text
\* "bench press 20x8, 30x8" gives "bench press" with (8, 20.0), (8, 30.0)
C19_ExplicitPairsInOrder ==
    (Parsed /\ parser_run.message.separator \in Separators)
    => /\ parser_run.message.sets # <<>>
            => parser_run.result.workout_type = BenchPress
       /\ Len(parser_run.result.pairs) = Len(PairsOf(parser_run.message))
       /\ \A i \in DOMAIN parser_run.result.pairs :
              /\ parser_run.result.pairs[i].weight = PairsOf(parser_run.message)[i].weight
              /\ parser_run.result.pairs[i].reps = PairsOf(parser_run.message)[i].reps
       /\ parser_run.text = BenchPressExample
            => parser_run.result =
                  [workout_type |-> BenchPress,
                   pairs |-> <<[reps |-> 8, weight |-> 200],
                               [reps |-> 8, weight |-> 300]>>]

C19_Witness ==
    /\ Parsed
    /\ parser_run.text = BenchPressExample
    /\ Len(parser_run.result.pairs) = 2

\* the numbers of a message of bare numbers, as it lists them
RECURSIVE NumbersOf(_)
NumbersOf(sets) ==
    IF sets = <<>> THEN <<>>
    ELSE <<sets[1].weight, sets[1].reps>> \o NumbersOf(Tail(sets))

\* the numbers taken two by two as weight and reps; a last number without
\* a partner is left out
TwoByTwo(numbers) ==
    [i \in 1..(Len(numbers) \div 2) |->
        [reps |-> numbers[2 * i], weight |-> numbers[2 * i - 1]]]

\* the same message written with the separator x and nothing after the sets
WithX(message) == [message EXCEPT !.separator = <<"x">>, !.trailing = <<>>]

\* C20: without separators the numbers are paired in turn as weight, reps,
\* a last number without a partner is dropped, each pair is kept only
\* within the bounds, and "20 8, 30 8" gives the pairs of "20x8, 30x8"
C20_FallbackPairsAlternate ==
    (Parsed /\ parser_run.message.separator = Blank)
    => /\ parser_run.result.pairs =
              SelectSeq(TwoByTwo(NumbersOf(parser_run.message.sets)
                                 \o (IF parser_run.message.trailing = <<>>
                                     THEN <<>> ELSE <<5>>)),
                        WithinBounds)
       /\ parser_run.result.pairs =
              _parse_workout_entry(FormatMessage(WithX(parser_run.message))).pairs

\* "bench press 20 8, 30 8 5": two pairs, the 5 is dropped
C20_Witness ==
    /\ Parsed
    /\ parser_run.message.separator = Blank
    /\ parser_run.message.trailing # <<>>
    /\ parser_run.message.label = BenchPress
    /\ parser_run.result.pairs =
           <<[reps |-> 8, weight |-> 200], [reps |-> 8, weight |-> 300]>>

(***************************************************************************)
(* The summaries                                                           *)
(***************************************************************************)
\* the step computed the summary of a period
SummaryStep == event'.op = "summary" /\ event'.raised \notin {"Unauthorized", "ValueError"}

\* the entries logged in the window of the last summary
InWindow == {i \in DOMAIN workout_entries :
                /\ workout_entries[i].logged_at >= reply'.start
                /\ workout_entries[i].logged_at < reply'.end}

\* the body area an entry counts for: that of the taxonomy row of its type,
\* unmapped without such a row
AreaOf(entry) ==
    IF entry.workout_type \in DOMAIN move_body_areas
    THEN move_body_areas[entry.workout_type].body_area
    ELSE Unmapped

Chest == <<"c", "h", "e", "s", "t">>

\* C16: the body-area summary of a window counts every entry of the window
\* under the body area of the taxonomy row of its type, or under unmapped
\* when there is no such row, gives each such area once with its number of
\* entries, and lists the areas by falling count: 3 bench press entries and
\* 2 unknownmove entries give chest 3, unmapped 2
C16_BodyAreaCounts ==
    [][SummaryStep
       => LET items == reply'.summary.by_body_area
          IN  /\ {items[k][1] : k \in DOMAIN items}
                    = {AreaOf(workout_entries[i]) : i \in InWindow}
              /\ \A k \in DOMAIN items :
                    items[k][2] = Cardinality({i \in InWindow :
                                      AreaOf(workout_entries[i]) = items[k][1]})
              /\ \A k, l \in DOMAIN items :
                    /\ k < l => items[k][2] >= items[l][2]
                    /\ k # l => items[k][1] # items[l][1]
              /\ ({workout_entries[i].workout_display_name : i \in InWindow}
                     = {BenchPress, <<"u", "n", "k", "n", "o", "w", "n", "m", "o", "v", "e">>}
                   /\ Cardinality(InWindow) = 5)
                    => items = << <<Chest, 3>>, <<Unmapped, 2>> >>]_vars

\* three bench press entries and two unknownmove entries in the window of
\* the week, summed as chest 3, unmapped 2
C16_Witness ==
    /\ event.op = "summary"
    /\ reply.end - reply.start = Days(7)
    /\ reply.summary.by_body_area = << <<Chest, 3>>, <<Unmapped, 2>> >>

\* C17: the summary of a period holds, besides the number of workouts and
\* the two breakdowns, the total of the sets, the total volume (the sum of
\* reps x weight over the entries of the window) and the number of snoozes
\* of the window, and the text of the summary is built from it
C17_PeriodSummaryHasVolumeAndSkips ==
    [][SummaryStep
       => /\ DOMAIN reply'.summary
               = {"workouts", "by_workout_type", "by_body_area", "total_sets",
                  "total_volume", "skips"}
          /\ reply'.summary.total_sets = Cardinality(InWindow)
          /\ reply'.summary.skips
               = Cardinality({i \in DOMAIN snoozes :
                                 /\ snoozes[i].logged_at >= reply'.start
                                 /\ snoozes[i].logged_at < reply'.end})
          /\ event'.raised = ""]_vars

\* the label a message gives its sets, normalised: lowercased, whitespace
\* collapsed
LabelOf(text) == _normalize_workout_label(ParseEntry(Strip(text)).workout_type)

\* C18: an entry of an exercise that is not in the taxonomy is stored with
\* the normalised input label as its display label (lowercased, whitespace
\* collapsed to single spaces, the name otherwise kept), and counts under
\* unmapped
C18_UnmappedLabelKept ==
    \A i \in DOMAIN workout_entries :
        workout_entries[i].workout_type \notin DOMAIN move_body_areas
        => /\ workout_entries[i].workout_display_name
                = LabelOf(workout_entries[i].source_text)
           /\ _lookup_body_area(move_body_areas, workout_entries[i].workout_type)
                = Unmapped

(***************************************************************************)
(* The startup pass                                                        *)
(***************************************************************************)
\* C21: after the startup seed and the re-canonicalization of the entries
\* ran once, running them again leaves move_body_areas and workout_entries
\* as they are: no row more, no row less, no field changed
C21_StartupIdempotent ==
    event.op = "restart"
    => /\ _init_db(DB).move_body_areas = move_body_areas
       /\ _init_db(DB).workout_entries = workout_entries

\* the startup rewrote a legacy entry "V Up" to the key vup with its label,
\* filled the taxonomy, and kept the stale move of the earlier seed
C21_Witness ==
    /\ event.op = "restart"
    /\ Len(workout_entries) = 2
    /\ workout_entries[1].workout_type = <<"v", "u", "p">>
    /\ workout_entries[1].workout_display_name = <<"v", " ", "u", "p">>
    /\ workout_entries[2].workout_type = <<"!", "!">>
    /\ <<"o", "l", "d">> \in DOMAIN move_body_areas
    /\ move_body_areas[<<"v", "u", "p">>].body_area = <<"c", "o", "r", "e">>

(***************************************************************************)
(* The bot of the process                                                  *)
(***************************************************************************)
\* C22: however the calls of ensure_initialized interleave, one bot is
\* constructed, every call returns that bot, and Application.initialize is
\* called at most once
C22_OneBotInitializedOnce ==
    /\ server.instances <= 1
    /\ server.initialize_runs <= 1
    /\ \A c \in Callers : server.pc[c] = "done" => server.bot[c] = server._bot_instance

(***************************************************************************)
(* The morning quote                                                       *)
(***************************************************************************)
\* the quote call did not come to a quote: no key, an exception, a body
\* that is not of the expected shape or holds no text
QuoteFailed(call) ==
    \/ Strip(call.api_key) = <<>>
    \/ call.raises # ""
    \/ _extract_quote_text(call.body).raised # ""
    \/ _extract_quote_text(call.body).text = <<>>

\* C23: whenever the quote call fails (missing key, timeout, transport error,
\* error status, malformed or empty response) the morning greeting carries
\* the fallback quote of the day: no error of the quote call ends the run,
\* and the greeting is sent
C23_QuoteFailureFallsBack ==
    [][(/\ GreetingStep
        /\ http'.body \in {"sent", "failed"}
        /\ QuoteFailed(greeting'.call))
       => /\ event'.raised \in {"", "TelegramError"}
          /\ event'.raised = "" => greeting'.sent
          /\ greeting'.sent => greeting'.quote = _fallback_quote(now)]_vars

(***************************************************************************)
(* The draft outside awaiting mode                                         *)
(***************************************************************************)
\* C24: after any sequence of "I trained", texts, undo, finish, cancel and
\* /log, whenever the awaiting flag is not set the draft is absent or holds
\* no batch
C24_NoBatchesUnlessAwaiting ==
    ~awaiting_workout_log => (workout_draft = NoDraft \/ workout_draft.batches = <<>>)

\* a draft of two batches was finished: its workout is stored, awaiting mode
\* is left and the draft is empty
C24_Witness ==
    /\ event.op = "finish_workout"
    /\ event.ok
    /\ event.written > 1
    /\ ~awaiting_workout_log
    /\ workout_draft = EmptyDraft

(***************************************************************************)
(* The batches of the draft                                                *)
(***************************************************************************)
\* C25: every batch of the draft has a workout type that is not empty and
\* at least one pair, and every pair has 1 <= reps <= 100 and
\* 0 < weight <= 2000; so the triples a finish flattens the draft to are as
\* many as the set count the draft reports
C25_BatchesWellFormed ==
    /\ \A i \in DOMAIN workout_draft.batches :
          /\ Strip(workout_draft.batches[i].workout_type) # <<>>
          /\ workout_draft.batches[i].pairs # <<>>
          /\ \A j \in DOMAIN workout_draft.batches[i].pairs :
                WithinBounds(workout_draft.batches[i].pairs[j])
    /\ Len(DraftEntries(workout_draft)) = _draft_set_count(workout_draft)

\* two messages of two sets each were added to the draft: four triples
C25_Witness ==
    /\ event.op = "text"
    /\ event.ok
    /\ Len(workout_draft.batches) = 2
    /\ _draft_set_count(workout_draft) = 4
    /\ Len(DraftEntries(workout_draft)) = 4

(***************************************************************************)
(* A finish that stores nothing                                            *)
(***************************************************************************)
\* the draft has batches, and no workout type among them keeps a character
\* of [a-z0-9]
OnlyUnkeyedBatches(draft) ==
    /\ draft.batches # <<>>
    /\ \A i \in DOMAIN draft.batches :
          _normalize_workout_type_key(draft.batches[i].workout_type) = <<>>

\* C26: a finish empties the draft and leaves awaiting mode only in a step
\* that also stores a Workout; on a draft whose batches all have a workout
\* type without a letter or digit the logging raises, no row is stored, and
\* the draft and the awaiting flag stay as they were
C26_ResetOnlyWithWorkout ==
    [][StepOf("finish_workout")
       => /\ ~ConversationUnchanged => Len(workouts') = Len(workouts) + 1
          /\ OnlyUnkeyedBatches(workout_draft)
                => /\ event'.raised = "ValueError"
                   /\ RowsUnchanged
                   /\ ConversationUnchanged]_vars

\* the finish of a draft that holds only "!! 5x5" raised, with the draft
\* and the flag still there and no workout stored
C26_Witness ==
    /\ event.op = "finish_workout"
    /\ event.raised = "ValueError"
    /\ awaiting_workout_log
    /\ OnlyUnkeyedBatches(workout_draft)
    /\ workouts = <<>>

(***************************************************************************)
(* /log beside a draft                                                     *)
(***************************************************************************)
\* the triples of /log <text>: one per pair of the parsed text
LogTriples(text) ==
    [i \in DOMAIN ParseEntry(text).pairs |->
        [workout_type |-> ParseEntry(text).workout_type,
         reps |-> ParseEntry(text).pairs[i].reps,
         weight |-> ParseEntry(text).pairs[i].weight]]

\* C27: /log <text> stores a Workout of its own or, when the text does not
\* parse or the write fails, nothing; it leaves the awaiting flag and the
\* batches of the draft as they were, and a later finish of the draft
\* stores the entries of the draft's own batches and no other
C27_LogLeavesDraftAlone ==
    [][/\ (StepOf("log") /\ event'.text # <<>>)
            => /\ ConversationUnchanged
               /\ RowsUnchanged \/ AddsWorkoutOf(KeyedTriples(LogTriples(event'.text)))
               /\ event'.ok => ~RowsUnchanged
       /\ (StepOf("finish_workout") /\ event'.ok)
            => AddsWorkoutOf(KeyedTriples(Triples(workout_draft)))]_vars

\* /log zz 20 8 was stored while the draft held a v up batch; the finish
\* that followed stored the two v up sets as a second workout
C27_Witness ==
    /\ event.op = "finish_workout"
    /\ event.ok
    /\ Len(workouts) = 2
    /\ workouts[1].note = TextZz
    /\ workouts[2].note = TextVUp
    /\ workouts[2].logged_at = workouts[1].logged_at
    /\ Len(workout_entries) = 3
    /\ workout_entries[1].workout_type = <<"z", "z">>
    /\ \A i \in 2..3 : /\ workout_entries[i].workout_type = <<"v", "u", "p">>
                       /\ workout_entries[i].workout_id = workouts[2].id

(***************************************************************************)
(* The workouts a deadline counts                                          *)
(***************************************************************************)
\* C28: when the workouts logged in [week_start, deadline) are at least the
\* requirement of a milestone, no run of that week delivers its nudge after
\* the deadline, and no step after the deadline changes that count; when
\* they are fewer and the nudge is not yet marked, a run delivers it,
\* however many workouts were logged after the deadline
C28_DeadlineCountDecides ==
    [][\A m \in 1..3 :
          LET week_start == MondayOf(now)
              deadline == DeadlineOf(MondayOf(now), m)
              required == WEEKLY_MILESTONES[m].required_workouts
          IN  now >= deadline
              => /\ MondayOf(now') = week_start
                    => Cardinality({i \in DOMAIN workouts' :
                                       /\ workouts'[i].logged_at >= week_start
                                       /\ workouts'[i].logged_at < deadline})
                          = LoggedIn(week_start, deadline)
                 /\ (event'.op = "nudges" /\ LoggedIn(week_start, deadline) >= required)
                       => ~Delivered(m)
                 /\ (/\ event'.op = "nudges"
                     /\ event'.raised = ""
                     /\ LoggedIn(week_start, deadline) < required
                     /\ ~MarkedIn(weekly_nudges, week_start, m))
                       => Delivered(m)]_vars

\* one workout before Tuesday 20:00 and one after Thursday 20:00: the run
\* on Thursday night delivered the nudge of milestone 2, and none was ever
\* delivered for milestone 1
C28_Witness ==
    /\ event.op = "nudges"
    /\ event.sent = <<2>>
    /\ now < Days(7)
    /\ Len(workouts) = 2
    /\ workouts[1].logged_at < DeadlineOf(0, 1)
    /\ workouts[2].logged_at >= DeadlineOf(0, 2)
    /\ nudge_sends = << <<0, 2>> >>

(***************************************************************************)
(* A nudge that could not be sent                                          *)
(***************************************************************************)
\* the milestone m is due in a run now: not marked, deadline passed, fewer
\* workouts than required before the deadline
DueNow(m) ==
    /\ ~MarkedIn(weekly_nudges, MondayOf(now), m)
    /\ now >= DeadlineOf(MondayOf(now), m)
    /\ LoggedIn(MondayOf(now), DeadlineOf(MondayOf(now), m))
          < WEEKLY_MILESTONES[m].required_workouts

\* C29: a run writes the mark of a (week_start, milestone) pair only for a
\* nudge it delivered; a run in which a send fails leaves that milestone
\* unmarked and delivers and marks nothing for the milestones after it; and
\* the run that follows attempts the nudge again: if no send fails in it,
\* it delivers the nudge
C29_MarkOnlyAfterSend ==
    [][event'.op = "nudges"
       => /\ weekly_nudges \subseteq weekly_nudges'
          /\ \A m \in 1..3 :
                (MarkedIn(weekly_nudges', MondayOf(now), m)
                    /\ ~MarkedIn(weekly_nudges, MondayOf(now), m)) => Delivered(m)
          /\ event'.raised # ""
                => \E failed \in 1..3 :
                      /\ DueNow(failed)
                      /\ \A m \in 1..(failed - 1) : DueNow(m) => Delivered(m)
                      /\ \A m \in failed..3 :
                            /\ ~Delivered(m)
                            /\ ~MarkedIn(weekly_nudges', MondayOf(now), m)
          /\ (event.op = "nudges" /\ event.raised # "" /\ event'.raised = "")
                => \E m \in 1..3 : DueNow(m) /\ Delivered(m)]_vars

\* a first run on Sunday afternoon without any workout: the nudge of
\* milestone 1 was delivered and marked, the send for milestone 2 failed,
\* and neither milestone 2 nor milestone 3 is marked
C29_Witness ==
    /\ event.op = "nudges"
    /\ event.raised = "TelegramError"
    /\ event.sent = <<1>>
    /\ now >= DeadlineOf(0, 3)
    /\ now < Days(7)
    /\ workouts = <<>>
    /\ MarkedIn(weekly_nudges, 0, 1)
    /\ ~MarkedIn(weekly_nudges, 0, 2)
    /\ ~MarkedIn(weekly_nudges, 0, 3)

(***************************************************************************)
(* The totals of a period summary                                          *)
(***************************************************************************)
\* the workouts rows logged in [start, end)
CountedIn(start, end) ==
    {w \in DOMAIN workouts :
        workouts[w].logged_at >= start /\ workouts[w].logged_at < end}

\* C30: the entries of a Workout carry the logged_at of the Workout; so in
\* every period summary total_sets is the sum of the sets columns of the
\* workouts counted in the window, and the counts of by_body_area add up to
\* the same number
C30_TotalsAgree ==
    /\ \A w \in DOMAIN workouts : \A i \in EntriesOf(workouts[w].id) :
          workout_entries[i].logged_at = workouts[w].logged_at
    /\ (event.op = "summary" /\ "total_sets" \in DOMAIN reply.summary)
          => /\ reply.summary.workouts = Cardinality(CountedIn(reply.start, reply.end))
             /\ reply.summary.total_sets
                   = SumOf([w \in DOMAIN workouts |-> workouts[w].sets],
                           CountedIn(reply.start, reply.end))
             /\ SumValues(reply.summary.by_body_area) = reply.summary.total_sets

\* the summary of the week asked on day 8: of two workouts only the one of
\* day 1 is in the window, and its three sets are the total
C30_Witness ==
    /\ event.op = "summary"
    /\ now = Days(8)
    /\ reply.start = Days(1)
    /\ Len(workouts) = 2
    /\ workouts[1].logged_at = 0
    /\ workouts[2].logged_at = Days(1)
    /\ workouts[2].sets = 3
    /\ reply.summary.workouts = 1
    /\ reply.summary.total_sets = 3
    /\ SumValues(reply.summary.by_body_area) = 3

====
